---- MODULE Spec2Model ----
(***************************************************************************)
(* GolfCapture: the capture / import / redemption core of the two server   *)
(* variants of the repository, over a PostgreSQL database at the default   *)
(* READ COMMITTED isolation level.                                         *)
(*                                                                         *)
(*   service = "backend"   src/backend/server.js   (repeat-visitor)        *)
(*   service = "part000"   src/unnamed/part_000    (anti-abuse)            *)
(*                                                                         *)
(* Text values (email, phone, zip, names, reward codes) are sequences of   *)
(* one-character strings, so that toLowerCase, trim and the digit filter   *)
(* of normalizePhone are computed and not assumed.  Null is SQL NULL / JS  *)
(* undefined for such a value; tri-state booleans and enums are the        *)
(* strings "true" / "false" / "null", "weekly" / ... / "null".             *)
(***************************************************************************)
EXTENDS Integers, Sequences, FiniteSets, TLC

VARIABLES
    service,      \* which server variant is deployed
    customers,    \* committed customers rows, indexed by id 1..Len
    captures,     \* committed captures rows
    pipeline,     \* committed prospect_pipeline rows
    imports,      \* committed imports rows
    import_rows,  \* committed import_rows rows
    pc,           \* position of each request handler
    req,          \* the request each handler is serving
    tx,           \* the handler's open transaction: locals and uncommitted writes
    resp,         \* the response of the handler
    started,      \* number of requests accepted so far
    fnArg,        \* argument of the pure function under check
    fnResult,     \* its result
    email_queue,      \* email_queue rows, indexed by id 1..Len
    email_logs,       \* email_logs rows: the queue_id of each
    opted_out_email,  \* ids of the customers whose opted_out_email is true
    sendgrid,         \* whether process.env.SENDGRID_API_KEY is set
    outbox,           \* queue ids of the messages handed to sgMail.send
    run,              \* locals of each call of processEmailQueue
    email_templates,  \* email_templates rows, indexed by id 1..Len
    admin_users,      \* admin_users rows by id: email, role and is_active
    admin_users_created,  \* number of admin_users rows inserted so far
    tokens,           \* the payloads of the tokens that jwt.sign has issued
    env               \* whether SETUP_TOKEN and DEFAULT_ADMIN_PASSWORD are set

vars == <<service, customers, captures, pipeline, imports, import_rows,
          pc, req, tx, resp, started, fnArg, fnResult,
          email_queue, email_logs, opted_out_email, sendgrid, outbox, run,
          email_templates, admin_users, admin_users_created, tokens, env>>

dbVars == <<customers, captures, pipeline, imports, import_rows>>
fnVars == <<fnArg, fnResult>>
emailVars == <<email_queue, email_logs, opted_out_email, sendgrid, outbox, run>>
adminVars == <<admin_users, admin_users_created, tokens, env>>
\* The running server, its email templates and its team.
siteVars == <<service, email_templates, adminVars>>

----------------------------------------------------------------------------
(* Text helpers                                                            *)

Null == <<"NULL">>

Digits == {"0", "1", "2", "3", "4", "5", "6", "7", "8", "9"}

UpperOf == [c \in {"a", "b", "c", "p", "x", "o"} |->
              CASE c = "a" -> "A" [] c = "b" -> "B" [] c = "c" -> "C"
                [] c = "p" -> "P" [] c = "x" -> "X" [] c = "o" -> "O"]

LowerOf == [c \in {"A", "B", "C", "P", "X", "O"} |->
              CASE c = "A" -> "a" [] c = "B" -> "b" [] c = "C" -> "c"
                [] c = "P" -> "p" [] c = "X" -> "x" [] c = "O" -> "o"]

toLowerCase(s) ==
    [i \in 1..Len(s) |-> IF s[i] \in DOMAIN LowerOf THEN LowerOf[s[i]] ELSE s[i]]

toUpperCase(s) ==
    [i \in 1..Len(s) |-> IF s[i] \in DOMAIN UpperOf THEN UpperOf[s[i]] ELSE s[i]]

RECURSIVE trimStart(_)
trimStart(s) ==
    IF s # <<>> /\ Head(s) = " " THEN trimStart(Tail(s)) ELSE s

RECURSIVE trimEnd(_)
trimEnd(s) ==
    IF s # <<>> /\ s[Len(s)] = " " THEN trimEnd(SubSeq(s, 1, Len(s) - 1)) ELSE s

trim(s) == trimEnd(trimStart(s))

\* JS truthiness of a text value: undefined, null and '' are falsy.
Truthy(s) == s # Null /\ s # <<>>

\* a || b on text values
OrElse(a, b) == IF Truthy(a) THEN a ELSE b

\* SQL COALESCE(a, b)
COALESCE(a, b) == IF a # Null THEN a ELSE b

\* The same on tri-state / enum columns, whose NULL is "null".
COALESCE3(a, b) == IF a # "null" THEN a ELSE b

----------------------------------------------------------------------------
(* Pure helpers of the servers                                             *)

\* email?.toLowerCase().trim()
normalizeEmail(email) ==
    IF email = Null THEN Null ELSE trim(toLowerCase(email))

\* The function without the slice of the leading 1.
normalizePhoneKeepOne(phone) ==
    IF ~Truthy(phone) THEN Null
    ELSE LET digits == SelectSeq(phone, LAMBDA c : c \in Digits)
         IN  IF Len(digits) = 10 THEN digits
             ELSE IF Len(digits) = 11 /\ digits[1] = "1" THEN digits
             ELSE Null

\* if (!phone) return null; digits = phone.replace(/\D/g, ''); 10 digits as they are,
\* 11 digits with a leading 1 without it, else null
normalizePhone(phone) ==
    IF ~Truthy(phone) THEN Null
    ELSE LET digits == SelectSeq(phone, LAMBDA c : c \in Digits)
         IN  IF Len(digits) = 10 THEN digits
             ELSE IF Len(digits) = 11 /\ digits[1] = "1" THEN Tail(digits)
             ELSE Null

Min(a, b) == IF a < b THEN a ELSE b

\* The visit_count band with the tiers tested lowest first: a customer with
\* five visits falls into the first tier that applies.
visitPointsLowestFirst(n) ==
    IF n >= 2 THEN 10 ELSE IF n >= 3 THEN 15 ELSE IF n >= 5 THEN 20 ELSE 0

visitPoints(n) ==
    IF n >= 5 THEN 20 ELSE IF n >= 3 THEN 15 ELSE IF n >= 2 THEN 10 ELSE 0

frequencyPoints(f) ==
    IF f = "weekly" THEN 25
    ELSE IF f = "monthly" THEN 15
    ELSE IF f = "rarely" THEN 5
    ELSE 0

calculateMembershipScore(customer) ==
    LET s1 == IF customer.is_local = "true" THEN 30 ELSE 0
        s2 == s1 + frequencyPoints(customer.play_frequency)
        s3 == s2 + visitPoints(customer.visit_count)
        s4 == s3 + (IF customer.member_elsewhere = "false" THEN 15 ELSE 0)
        s5 == s4 + (IF Truthy(customer.email) /\ Truthy(customer.phone) THEN 5 ELSE 0)
        s6 == s5 + (IF Truthy(customer.zip) THEN 5 ELSE 0)
    IN  Min(s6, 100)

\* The looser browse threshold used in place of the strict one.
prospectFlagLoose(score, is_local) == score >= 50 /\ is_local = "true"

\* isProspect = score >= 60 && is_local === true
prospectFlag(score, is_local) == score >= 60 /\ is_local = "true"

----------------------------------------------------------------------------
(* Bounds                                                                  *)

NumWorkers == 2      \* request handlers that may be in flight together
MaxRequests == 3     \* requests accepted in one run

Workers == 1..NumWorkers

----------------------------------------------------------------------------
(* Inputs                                                                  *)

EmailA_raw == <<"A", "@", "x", " ">>
EmailA == <<"a", "@", "x">>
EmailB == <<"b", "@", "x">>
Phone1_raw == <<"5", "5", "5", "-", "0", "1", "0", "-", "0", "0", "0", "1">>
Phone1_us == <<"1", "5", "5", "5", "0", "1", "0", "0", "0", "0", "1">>
Phone1 == <<"5", "5", "5", "0", "1", "0", "0", "0", "0", "1">>
Phone2 == <<"5", "5", "5", "0", "1", "0", "0", "0", "0", "2">>
PhoneBad == <<"1", "2", "3">>
Zip1 == <<"2", "9", "5", "7", "9">>
NameAl == <<"A", "l">>
NameBo == <<"B", "o">>
SlugDefault == <<"c", "p">>
SlugOther == <<"x">>

\* courses: the one seeded course
courseSlugs == {SlugDefault}

\* locations of the course (QR code placements) with their configured reward_type
locations ==
    [l \in {"cart", "coaster", "table_tent", "pro_shop"} |->
        CASE l = "cart" -> "free_beer"
          [] l = "coaster" -> "free_appetizer"
          [] l = "table_tent" -> "meal_discount"
          [] l = "pro_shop" -> "shop_discount"]

\* ab_tests: the test an admin has started on the pro shop's QR code
ab_tests ==
    {[location_id |-> "pro_shop", is_active |-> TRUE,
      variant_a_reward_type |-> "free_soft_drink",
      variant_b_reward_type |-> "food_bev_5"]}

BlankForm ==
    [courseSlug |-> Null, firstName |-> Null, lastName |-> Null, email |-> Null,
     phone |-> Null, zip |-> Null, bookingSource |-> "null", isLocal |-> "null",
     playFrequency |-> "null", memberElsewhere |-> "null", firstTime |-> "null",
     chosenReward |-> "null", locationId |-> "null"]

\* A local weekly golfer with full contact data: a prospect on the first visit.
FormLocal ==
    [BlankForm EXCEPT !.firstName = NameAl, !.email = EmailA_raw, !.phone = Phone1_raw,
                      !.zip = Zip1, !.bookingSource = "website", !.isLocal = "true",
                      !.playFrequency = "weekly", !.memberElsewhere = "false",
                      !.firstTime = "true", !.chosenReward = "pro_shop_5",
                      !.locationId = "cart"]

\* The same email again, with another phone and nothing else but the answer that
\* this is not the first visit.
FormAgain ==
    [BlankForm EXCEPT !.courseSlug = SlugDefault, !.email = EmailA, !.phone = Phone2,
                      !.firstTime = "false", !.locationId = "coaster"]

\* Another email with the first phone (US country-code form): a visiting golfer.
FormVisitor ==
    [BlankForm EXCEPT !.firstName = NameBo, !.email = EmailB, !.phone = Phone1_us,
                      !.zip = Zip1, !.isLocal = "false", !.playFrequency = "weekly",
                      !.memberElsewhere = "false", !.chosenReward = "free_wine",
                      !.locationId = "pro_shop"]

\* No email and no usable phone; the reward asked for is the name of a property
\* that every JavaScript object inherits.
FormNoContact ==
    [BlankForm EXCEPT !.phone = PhoneBad, !.isLocal = "true", !.playFrequency = "weekly",
                      !.chosenReward = "constructor"]

\* A course that does not exist.
FormOtherCourse ==
    [BlankForm EXCEPT !.courseSlug = SlugOther, !.email = EmailB, !.phone = Phone2]

Forms == {FormLocal, FormAgain, FormVisitor, FormNoContact, FormOtherCourse}

\* Uploaded CSV files, parsed (columns: true, trim: true): every value is a string.
FileGeneric ==
    [source |-> "generic",
     records |-> << ("first_name" :> NameAl) @@ ("email" :> EmailA) @@ ("phone" :> <<>>)
                    @@ ("zip" :> Zip1) >>]

FileGolfNow ==
    [source |-> "golfnow",
     records |-> << ("ID" :> <<"7">>) @@ ("First Name" :> NameBo)
                    @@ ("Email" :> <<"B", "@", "x">>) @@ ("Phone" :> Phone2),
                    ("Email" :> EmailA) @@ ("Phone Number" :> Phone2) >>]

FileSkip ==
    [source |-> "clubessential",
     records |-> << ("Email" :> <<>>) @@ ("HomePhone" :> PhoneBad),
                    ("EmailAddress" :> EmailA) @@ ("MobilePhone" :> Phone1_raw)
                    @@ ("PostalCode" :> Zip1) >>]

ImportFiles == {FileGeneric, FileGolfNow, FileSkip}

\* The uploads of POST /api/import: each file for the default course, a request
\* without a file, and a file for a course that does not exist.  file holds the
\* parsed records of req.file, and nothing when there is no req.file.
ImportUploads ==
    {[courseSlug |-> Null, source |-> f.source, file |-> <<f.records>>] : f \in ImportFiles}
    \cup {[courseSlug |-> Null, source |-> "generic", file |-> <<>>],
          [courseSlug |-> SlugOther, source |-> "generic", file |-> <<FileGeneric.records>>]}

\* Outcomes of the six Math.random() draws of generateRewardCode.
CodeDraws == {<<"A", "B", "C", "2", "3", "4">>, <<"X", "X", "X", "9", "9", "9">>}

----------------------------------------------------------------------------
(* Rows                                                                    *)

\* A customers row has every column of CREATE TABLE customers but id (its position in
\* the table), course_id (there is one course) and opted_out_email (kept apart, in
\* the variable of that name).  A timestamp is the number of an instant, instants
\* being numbered in the order in which they occur; the NULL timestamp is 0.

\* CREATE TRIGGER update_customers_updated_at BEFORE UPDATE ON customers FOR EACH ROW:
\* NEW.updated_at = NOW()
update_updated_at_column(row, now) == [row EXCEPT !.updated_at = now]

\* INSERT INTO customers ... VALUES (..., 1, NOW()) of POST /api/capture; the columns
\* that are not named take their defaults: membership_score 0, is_membership_prospect
\* false, created_at and updated_at NOW().
captureCustomerRow(form, normalizedEmail, normalizedPhone, now) ==
    [first_name |-> form.firstName, last_name |-> form.lastName,
     email |-> normalizedEmail, email_verified |-> FALSE,
     phone |-> normalizedPhone, phone_verified |-> FALSE, zip |-> form.zip,
     booking_source |-> form.bookingSource, is_local |-> form.isLocal,
     play_frequency |-> form.playFrequency, member_elsewhere |-> form.memberElsewhere,
     first_time_visitor |-> form.firstTime, distance_miles |-> "null",
     visit_count |-> 1, last_visit_at |-> now,
     membership_score |-> 0, is_membership_prospect |-> FALSE,
     source |-> "capture", source_id |-> Null,
     created_at |-> now, updated_at |-> now]

\* The UPDATE without visit_count = visit_count + 1.
captureMergeKeepCount(row, form, normalizedEmail, normalizedPhone, now) ==
    update_updated_at_column(
        [row EXCEPT !.first_name = COALESCE(form.firstName, @),
                    !.last_name = COALESCE(form.lastName, @),
                    !.email = COALESCE(normalizedEmail, @),
                    !.phone = COALESCE(normalizedPhone, @),
                    !.zip = COALESCE(form.zip, @),
                    !.booking_source = COALESCE3(form.bookingSource, @),
                    !.is_local = COALESCE3(form.isLocal, @),
                    !.play_frequency = COALESCE3(form.playFrequency, @),
                    !.member_elsewhere = COALESCE3(form.memberElsewhere, @),
                    !.last_visit_at = now],
        now)

\* UPDATE customers SET x = COALESCE($n, x), visit_count = visit_count + 1,
\* last_visit_at = NOW(), and the trigger
captureMergeRow(row, form, normalizedEmail, normalizedPhone, now) ==
    update_updated_at_column(
        [row EXCEPT !.first_name = COALESCE(form.firstName, @),
                    !.last_name = COALESCE(form.lastName, @),
                    !.email = COALESCE(normalizedEmail, @),
                    !.phone = COALESCE(normalizedPhone, @),
                    !.zip = COALESCE(form.zip, @),
                    !.booking_source = COALESCE3(form.bookingSource, @),
                    !.is_local = COALESCE3(form.isLocal, @),
                    !.play_frequency = COALESCE3(form.playFrequency, @),
                    !.member_elsewhere = COALESCE3(form.memberElsewhere, @),
                    !.visit_count = @ + 1,
                    !.last_visit_at = now],
        now)

\* SELECT * ...; calculateMembershipScore; UPDATE customers SET membership_score,
\* is_membership_prospect, and the trigger
scoreRow(row, now) ==
    LET score == calculateMembershipScore(row)
    IN  update_updated_at_column(
            [row EXCEPT !.membership_score = score,
                        !.is_membership_prospect = prospectFlag(score, row.is_local)],
            now)

generateRewardCode(draw) == <<"C", "P">> \o draw

\* The keys of the object literal rewardMap; the type of each entry is its key.
rewardMap == {"free_beer", "free_soft_drink", "pro_shop_5", "food_bev_5"}

\* The property names that rewardMap, as every object literal, inherits from
\* Object.prototype.
ObjectPrototype ==
    {"constructor", "toString", "toLocaleString", "valueOf", "hasOwnProperty",
     "isPrototypeOf", "propertyIsEnumerable", "__proto__", "__defineGetter__",
     "__defineSetter__", "__lookupGetter__", "__lookupSetter__"}

\* const chosenRewardInfo = rewardMap[chosenReward] || rewardMap.free_beer; let
\* rewardType = chosenRewardInfo.type: an inherited property is truthy and has no
\* type, so that rewardType is undefined and the INSERT gets no reward of the menu.
resolveReward(chosenReward) ==
    IF chosenReward \in rewardMap THEN chosenReward
    ELSE IF chosenReward \in ObjectPrototype THEN "undefined"
    ELSE "free_beer"

\* The email_templates that 005_email_system.sql seeds, in the order of its INSERTs.
SeededTemplates ==
    <<[type |-> "same_day_thanks", delay_hours |-> 0, is_active |-> TRUE],
      [type |-> "followup_local", delay_hours |-> 72, is_active |-> TRUE],
      [type |-> "followup_visitor", delay_hours |-> 72, is_active |-> TRUE],
      [type |-> "repeat_visitor_3", delay_hours |-> 0, is_active |-> TRUE]>>

\* INSERT INTO email_queue (course_id, customer_id, template_id, to_email, subject,
\* body_html, scheduled_for): status takes the default 'pending'.  Instants are
\* numbered in the order in which the clock is read.  due says whether
\* scheduled_for <= NOW(); the scheduled_for of a due entry is the instant that was
\* reached, that of an entry still ahead is the instant at which it was computed,
\* to which the delay of its template is to be added.
emailRow(customerId, due, scheduledFor) ==
    [customer_id |-> customerId, status |-> "pending", due |-> due,
     scheduled_for |-> scheduledFor, error_message |-> "null"]

\* INSERT INTO captures (course_id, customer_id, location_id, form_data, reward_code,
\* reward_type, ...) with locationId || null
captureRow(customerId, locationId, rewardCode, rewardType) ==
    [customer_id |-> customerId, location_id |-> locationId,
     reward_code |-> rewardCode, reward_type |-> rewardType,
     reward_redeemed |-> FALSE, reward_redeemed_by |-> Null, reward_redeemed_at |-> 0]

----------------------------------------------------------------------------
(* The database: READ COMMITTED transactions over the schema               *)

NoTx ==
    [open |-> FALSE, email |-> Null, phone |-> Null, customerId |-> 0,
     isNewCustomer |-> TRUE, isProspect |-> FALSE, rewardCode |-> Null,
     rewardType |-> "null",
     i |-> 0, mapped |-> <<>>, matchType |-> "null", action |-> "null",
     newCustomers |-> 0, matchedCustomers |-> 0, skippedRows |-> 0, errors |-> 0,
     upd |-> <<>>, ins |-> <<>>, caps |-> <<>>, pipe |-> <<>>,
     imps |-> <<>>, irows |-> <<>>, found |-> {}, followups |-> <<>>,
     template |-> 0, scheduledFor |-> 0, due |-> FALSE,
     adminCount |-> 0, targetRole |-> "null", user |-> 0, now |-> 0]

NoReq == [kind |-> "none"]

NoResp == [status |-> 0, error |-> "", customerId |-> 0, isNewCustomer |-> FALSE,
           rewardCode |-> Null, prospects |-> {}, body |-> <<>>, queued |-> 0]

\* Rows a statement of handler p sees: what is committed, overlaid with the
\* transaction's own writes; its own inserts have the ids -1, -2, ...
ViewIds(p) == (1..Len(customers)) \cup {0 - k : k \in 1..Len(tx[p].ins)}

ViewRow(p, id) ==
    IF id < 0 THEN tx[p].ins[0 - id]
    ELSE IF id \in DOMAIN tx[p].upd THEN tx[p].upd[id]
    ELSE customers[id]

ViewCaptures(p) == captures \o tx[p].caps

\* no constraint on the two identity keys
KeyClashNone(r1, r2) == FALSE

\* CONSTRAINT unique_email_per_course UNIQUE (course_id, email),
\* CONSTRAINT unique_phone_per_course UNIQUE (course_id, phone); NULLs never clash.
KeyClash(r1, r2) ==
    \/ r1.email # Null /\ r1.email = r2.email
    \/ r1.phone # Null /\ r1.phone = r2.phone

\* An UPDATE that would not wait for the row lock of another transaction.
RowNeverLocked(p, id) == FALSE

\* The row is write-locked by another open transaction.
RowLockedByOther(p, id) ==
    \E q \in DOMAIN tx \ {p} : id \in DOMAIN tx[q].upd

\* Another open transaction holds an uncommitted row version with one of the
\* keys of `row`: the unique index makes the writer wait for that transaction.
OthersPending(p, id, row) ==
    \E q \in DOMAIN tx \ {p} :
        \/ \E j \in DOMAIN tx[q].upd :
               j # id /\ (KeyClash(row, tx[q].upd[j]) \/ KeyClash(row, customers[j]))
        \/ \E k \in 1..Len(tx[q].ins) : KeyClash(row, tx[q].ins[k])

\* duplicate key value violates unique constraint
UniqueViolation(p, id, row) ==
    \E j \in ViewIds(p) \ {id} : KeyClash(row, ViewRow(p, j))

Resolve(base, id) == IF id < 0 THEN base - id ELSE id

\* INSERT INTO prospect_pipeline (course_id, customer_id, status) VALUES ($1, $2, 'new');
\* assigned_to and notes have no default.
pipelineRow(customerId) ==
    [customer_id |-> customerId, status |-> "new", assigned_to |-> "null",
     notes |-> "null"]

\* The insert without the ON CONFLICT clause and without the unique index.
pipelineInsertAlways(table, customerId) == <<customerId>>

\* ... ON CONFLICT (customer_id) DO NOTHING under UNIQUE(customer_id): the customer ids
\* of the rows the statement inserts into `table`.
pipelineInsert(table, customerId) ==
    IF \E k \in 1..Len(table) : table[k].customer_id = customerId
    THEN <<>>
    ELSE <<customerId>>

\* The insert has to wait for a transaction that has inserted the same customer_id
\* and has not finished.
PipelinePending(p, customerId) ==
    /\ customerId > 0
    /\ \E q \in DOMAIN tx \ {p} :
          \E k \in 1..Len(tx[q].pipe) : tx[q].pipe[k] = customerId

\* COMMIT of p's transaction: all of its writes become visible at once.
CommitTables(p) ==
    LET base == Len(customers)
        t == tx[p]
    IN  /\ customers' = [id \in 1..base |->
                            IF id \in DOMAIN t.upd THEN t.upd[id] ELSE customers[id]]
                        \o t.ins
        /\ captures' = captures \o
              [k \in 1..Len(t.caps) |->
                  [t.caps[k] EXCEPT !.customer_id = Resolve(base, @)]]
        /\ pipeline' = pipeline \o
              [k \in 1..Len(t.pipe) |-> pipelineRow(Resolve(base, t.pipe[k]))]
        /\ imports' = imports \o t.imps
        /\ import_rows' = import_rows \o
              [k \in 1..Len(t.irows) |->
                  [t.irows[k] EXCEPT !.customer_id = Resolve(base, @),
                                     !.import_id = Resolve(Len(imports), @)]]

Err(status, error) == [NoResp EXCEPT !.status = status, !.error = error]

\* catch (error) { ROLLBACK; res.status(500) }: the uncommitted writes are dropped.
Fail(p, status, error) ==
    /\ pc' = [pc EXCEPT ![p] = "done"]
    /\ tx' = [tx EXCEPT ![p] = NoTx]
    /\ resp' = [resp EXCEPT ![p] = Err(status, error)]

\* pool.connect(): the pool hands out its first idle client.
FirstIdle(p) == \A q \in Workers : q < p => pc[q] # "idle"

\* The largest element of a set of instants.
Latest(instants) == CHOOSE m \in instants : \A n \in instants : n <= m

\* The timestamp columns of customers.
TimeColumns == {"last_visit_at", "created_at", "updated_at"}

\* NOW() of a transaction that starts, or of a statement sent on its own: the instant
\* after all those stored in customers and those at which the open transactions
\* started.  Within a transaction NOW() is the instant of its start.
NOW ==
    1 + Latest({0} \cup {customers[id][col] : id \in 1..Len(customers), col \in TimeColumns}
                   \cup {tx[q].now : q \in DOMAIN tx})

----------------------------------------------------------------------------
(* POST /api/capture                                                       *)

InTx == {"c_email", "c_phone", "c_claim", "c_claim2", "c_upsert", "c_score",
         "c_capture", "c_pipeline", "c_commit",
         "i_row", "i_phone", "i_write", "i_audit", "i_finish"}

\* BEGIN; SELECT id FROM courses WHERE slug = $1; normalise the contact fields.
CaptureBegin(p, form) ==
    /\ pc[p] = "idle"
    /\ FirstIdle(p)
    /\ started < MaxRequests
    /\ started' = started + 1
    /\ req' = [req EXCEPT ![p] = [kind |-> "capture", form |-> form]]
    /\ IF OrElse(form.courseSlug, SlugDefault) \notin courseSlugs
       THEN Fail(p, 500, "Course not found")
       ELSE /\ pc' = [pc EXCEPT ![p] = "c_email"]
            /\ tx' = [tx EXCEPT ![p] = [NoTx EXCEPT !.open = TRUE, !.now = NOW,
                                           !.email = normalizeEmail(form.email),
                                           !.phone = normalizePhone(form.phone)]]
            /\ resp' = resp
    /\ UNCHANGED <<siteVars, emailVars, dbVars, fnVars>>

\* SELECT id FROM customers WHERE course_id = $1 AND email = $2
CaptureMatchEmail(p) ==
    /\ pc[p] = "c_email"
    /\ LET hits == IF Truthy(tx[p].email)
                   THEN {id \in ViewIds(p) : ViewRow(p, id).email = tx[p].email}
                   ELSE {}
       IN  IF hits = {}
           THEN tx' = tx
           ELSE \E id \in hits :
                  tx' = [tx EXCEPT ![p].customerId = id, ![p].isNewCustomer = FALSE]
    /\ pc' = [pc EXCEPT ![p] = IF service = "backend" THEN "c_phone" ELSE "c_claim"]
    /\ UNCHANGED <<siteVars, emailVars, dbVars, req, resp, started, fnVars>>

\* backend only: SELECT id FROM customers WHERE course_id = $1 AND phone = $2
CaptureMatchPhone(p) ==
    /\ pc[p] = "c_phone"
    /\ LET hits == IF tx[p].customerId = 0 /\ Truthy(tx[p].phone)
                   THEN {id \in ViewIds(p) : ViewRow(p, id).phone = tx[p].phone}
                   ELSE {}
       IN  IF hits = {}
           THEN tx' = tx
           ELSE \E id \in hits :
                  tx' = [tx EXCEPT ![p].customerId = id, ![p].isNewCustomer = FALSE]
    /\ pc' = [pc EXCEPT ![p] = "c_upsert"]
    /\ UNCHANGED <<siteVars, emailVars, dbVars, req, resp, started, fnVars>>

\* part_000 only: SELECT id FROM captures WHERE customer_id = $1 LIMIT 1
CaptureClaimCheck(p) ==
    /\ pc[p] = "c_claim"
    /\ LET claimed ==
              /\ ~tx[p].isNewCustomer
              /\ tx[p].customerId # 0
              /\ \E k \in 1..Len(ViewCaptures(p)) :
                     ViewCaptures(p)[k].customer_id = tx[p].customerId
       IN  IF claimed
           THEN Fail(p, 400, "already_claimed")
           ELSE /\ pc' = [pc EXCEPT ![p] = "c_claim2"]
                /\ UNCHANGED <<tx, resp>>
    /\ UNCHANGED <<siteVars, emailVars, dbVars, req, started, fnVars>>

\* part_000 only: SELECT c.id FROM captures c JOIN customers cu ON c.customer_id = cu.id
\* WHERE cu.course_id = $1 AND cu.email = $2 LIMIT 1
CaptureDirectClaimCheck(p) ==
    /\ pc[p] = "c_claim2"
    /\ LET claimed ==
              /\ Truthy(tx[p].email)
              /\ \E k \in 1..Len(ViewCaptures(p)) :
                     LET cid == ViewCaptures(p)[k].customer_id
                     IN  cid \in ViewIds(p) /\ ViewRow(p, cid).email = tx[p].email
       IN  IF claimed
           THEN Fail(p, 400, "already_claimed")
           ELSE /\ pc' = [pc EXCEPT ![p] = "c_upsert"]
                /\ UNCHANGED <<tx, resp>>
    /\ UNCHANGED <<siteVars, emailVars, dbVars, req, started, fnVars>>

\* if (isNewCustomer) INSERT INTO customers (...) VALUES (..., 1, NOW()) RETURNING id
CaptureInsertCustomer(p) ==
    /\ pc[p] = "c_upsert"
    /\ tx[p].isNewCustomer
    /\ LET row == captureCustomerRow(req[p].form, tx[p].email, tx[p].phone, tx[p].now)
       IN  /\ ~OthersPending(p, 0, row)
           /\ IF UniqueViolation(p, 0, row)
              THEN Fail(p, 500, "duplicate key")
              ELSE /\ tx' = [tx EXCEPT ![p].ins = Append(@, row),
                                       ![p].customerId = 0 - (Len(tx[p].ins) + 1)]
                   /\ pc' = [pc EXCEPT ![p] = "c_score"]
                   /\ resp' = resp
    /\ UNCHANGED <<siteVars, emailVars, dbVars, req, started, fnVars>>

\* else UPDATE customers SET ... COALESCE($n, column) ..., visit_count = visit_count + 1
\* WHERE id = $1: takes the row lock and works on the latest committed version.
CaptureUpdateCustomer(p) ==
    /\ pc[p] = "c_upsert"
    /\ ~tx[p].isNewCustomer
    /\ LET id == tx[p].customerId
           row == captureMergeRow(ViewRow(p, id), req[p].form, tx[p].email, tx[p].phone,
                                  tx[p].now)
       IN  /\ ~RowLockedByOther(p, id)
           /\ ~OthersPending(p, id, row)
           /\ IF UniqueViolation(p, id, row)
              THEN Fail(p, 500, "duplicate key")
              ELSE /\ tx' = [tx EXCEPT ![p].upd = (id :> row) @@ @]
                   /\ pc' = [pc EXCEPT ![p] = "c_score"]
                   /\ resp' = resp
    /\ UNCHANGED <<siteVars, emailVars, dbVars, req, started, fnVars>>

\* The transaction's own version of its customer row, rewritten.
WriteOwnRow(t, id, row) ==
    IF id < 0 THEN [t EXCEPT !.ins[0 - id] = row]
    ELSE [t EXCEPT !.upd = (id :> row) @@ @]

\* SELECT * FROM customers WHERE id = $1; score; UPDATE customers SET
\* membership_score = $1, is_membership_prospect = $2 WHERE id = $3
CaptureScore(p) ==
    /\ pc[p] = "c_score"
    /\ LET id == tx[p].customerId
           row == scoreRow(ViewRow(p, id), tx[p].now)
       IN  tx' = [tx EXCEPT ![p] = [WriteOwnRow(tx[p], id, row) EXCEPT
                                        !.isProspect = row.is_membership_prospect]]
    /\ pc' = [pc EXCEPT ![p] = "c_capture"]
    /\ UNCHANGED <<siteVars, emailVars, dbVars, req, resp, started, fnVars>>

\* The same statement sent on a pooled connection outside the transaction.
InsertCaptureAutocommit(p, row) ==
    /\ tx' = [tx EXCEPT ![p].rewardCode = row.reward_code,
                        ![p].rewardType = row.reward_type]
    /\ captures' = Append(captures, row)

\* generateRewardCode(); INSERT INTO captures (...): added to the open transaction.
InsertCaptureInTx(p, row) ==
    /\ tx' = [tx EXCEPT ![p].caps = Append(@, row),
                        ![p].rewardCode = row.reward_code,
                        ![p].rewardType = row.reward_type]
    /\ captures' = captures

CaptureInsertCapture(p, draw) ==
    /\ pc[p] = "c_capture"
    /\ InsertCaptureInTx(p, captureRow(tx[p].customerId, req[p].form.locationId,
             generateRewardCode(draw),
             IF service = "backend" THEN "free_beer"
             ELSE resolveReward(req[p].form.chosenReward)))
    /\ pc' = [pc EXCEPT ![p] = IF service = "backend" THEN "c_commit" ELSE "c_pipeline"]
    /\ UNCHANGED <<siteVars, emailVars, customers, pipeline, imports, import_rows, req, resp,
                   started, fnVars>>

\* part_000 only: if (isProspect) INSERT INTO prospect_pipeline ... ON CONFLICT
\* (customer_id) DO NOTHING
CapturePipeline(p) ==
    /\ pc[p] = "c_pipeline"
    /\ LET id == tx[p].customerId
       IN  IF tx[p].isProspect
           THEN /\ ~PipelinePending(p, id)
                /\ tx' = [tx EXCEPT ![p].pipe = @ \o pipelineInsert(pipeline, id)]
           ELSE tx' = tx
    /\ pc' = [pc EXCEPT ![p] = "c_commit"]
    /\ UNCHANGED <<siteVars, emailVars, dbVars, req, resp, started, fnVars>>

\* COMMIT, then res.json({ success: true, ... })
CaptureCommit(p) ==
    /\ pc[p] = "c_commit"
    /\ CommitTables(p)
    /\ tx' = [tx EXCEPT ![p] = [NoTx EXCEPT !.email = tx[p].email]]
    /\ LET ok == [NoResp EXCEPT !.status = 200,
                     !.customerId = Resolve(Len(customers), tx[p].customerId),
                     !.isNewCustomer = tx[p].isNewCustomer,
                     !.rewardCode = IF service = "backend" THEN tx[p].rewardCode ELSE Null]
       IN  IF service = "backend"
           THEN /\ resp' = [resp EXCEPT ![p] = ok]
                /\ pc' = [pc EXCEPT ![p] = "done"]
           ELSE /\ resp' = [resp EXCEPT ![p] = ok]
                /\ pc' = [pc EXCEPT ![p] = "c_followup"]
    /\ UNCHANGED <<siteVars, emailVars, req, started, fnVars>>

\* Date.now() and NOW(), read for an entry that is queued: the clock still shows the
\* latest instant that a queue entry or a call of queueEmail under way holds (two
\* reads in the same millisecond), or the instant after it.
DateNow ==
    LET last == Latest({0} \cup {email_queue[k].scheduled_for : k \in 1..Len(email_queue)}
                           \cup {tx[q].scheduledFor : q \in DOMAIN tx})
    IN  {now \in {last, last + 1} : now > 0}

\* The scheduled_for timestamps that lie ahead: those of the queue entries that are
\* not due, and those that a call of queueEmail has computed and not yet inserted.
Ahead ==
    {email_queue[k].scheduled_for :
        k \in {j \in 1..Len(email_queue) : ~email_queue[j].due}}
    \cup {tx[q].scheduledFor :
             q \in {r \in DOMAIN tx : tx[r].scheduledFor # 0 /\ ~tx[r].due}}

\* queueEmail returns: the call is over, the handler goes on with the next one.
queueEmailReturn(t) ==
    LET u == [t EXCEPT !.followups = Tail(@), !.template = 0, !.scheduledFor = 0,
                       !.due = FALSE]
    IN  [tx |-> u, pc |-> IF u.followups = <<>> THEN "c_respond" ELSE "q_check"]

\* part_000 only, after COMMIT and the reward email: pool.connect(); SELECT * FROM
\* customers WHERE id = $1; the follow-up by cust.is_local, and the milestone email
\* if (cust.visit_count === 3)
CaptureFollowups(p) ==
    /\ pc[p] = "c_followup"
    /\ LET cust == customers[resp[p].customerId]
       IN  tx' = [tx EXCEPT ![p].followups =
                     <<IF cust.is_local = "true" THEN "followup_local"
                       ELSE "followup_visitor">>
                     \o (IF cust.visit_count = 3 THEN <<"repeat_visitor_3">> ELSE <<>>)]
    /\ pc' = [pc EXCEPT ![p] = "q_check"]
    /\ UNCHANGED <<siteVars, emailVars, dbVars, req, resp, started, fnVars>>

\* queueEmail: SELECT first_name, last_name, email, visit_count, opted_out_email FROM
\* customers WHERE id = $1; return without an email or when opted out
QueueEmailCheck(p) ==
    /\ pc[p] = "q_check"
    /\ LET id == resp[p].customerId
       IN  IF ~Truthy(customers[id].email) \/ id \in opted_out_email
           THEN /\ tx' = [tx EXCEPT ![p] = queueEmailReturn(tx[p]).tx]
                /\ pc' = [pc EXCEPT ![p] = queueEmailReturn(tx[p]).pc]
           ELSE /\ tx' = tx
                /\ pc' = [pc EXCEPT ![p] = "q_template"]
    /\ UNCHANGED <<siteVars, emailVars, dbVars, req, resp, started, fnVars>>

\* SELECT * FROM email_templates WHERE course_id = $1 AND type = $2 AND is_active =
\* true LIMIT 1 (each type has one template)
activeTemplates(templateType) ==
    {id \in 1..Len(email_templates) :
        email_templates[id].type = templateType /\ email_templates[id].is_active}

\* queueEmail: the template; return without an active one; const scheduledFor =
\* template.delay_hours > 0 ? new Date(Date.now() + delay) : new Date()
QueueEmailTemplate(p) ==
    /\ pc[p] = "q_template"
    /\ LET tmplResult == activeTemplates(Head(tx[p].followups))
       IN  IF tmplResult = {}
           THEN /\ tx' = [tx EXCEPT ![p] = queueEmailReturn(tx[p]).tx]
                /\ pc' = [pc EXCEPT ![p] = queueEmailReturn(tx[p]).pc]
           ELSE LET template == CHOOSE id \in tmplResult : TRUE
                IN  /\ \E now \in DateNow :
                          tx' = [tx EXCEPT ![p].template = template,
                                           ![p].scheduledFor = now,
                                           ![p].due =
                                               ~(email_templates[template].delay_hours > 0)]
                    /\ pc' = [pc EXCEPT ![p] = "q_insert"]
    /\ UNCHANGED <<siteVars, emailVars, dbVars, req, resp, started, fnVars>>

\* queueEmail: INSERT INTO email_queue (...) VALUES (..., scheduledFor)
QueueEmailInsert(p) ==
    /\ pc[p] = "q_insert"
    /\ email_queue' = Append(email_queue,
                             emailRow(resp[p].customerId, tx[p].due,
                                      tx[p].scheduledFor))
    /\ tx' = [tx EXCEPT ![p] = queueEmailReturn(tx[p]).tx]
    /\ pc' = [pc EXCEPT ![p] = queueEmailReturn(tx[p]).pc]
    /\ UNCHANGED <<siteVars, dbVars, req, resp, started, fnVars,
                   email_logs, opted_out_email, sendgrid, outbox, run>>

\* const emailClient = await pool.connect() fails (pool exhausted, connection
\* refused): the call stands before the inner try, so the error reaches the outer
\* catch, whose ROLLBACK finds the transaction committed, and the request is
\* answered 500.
FollowupConnectError(p) ==
    /\ pc[p] = "c_followup"
    /\ pc' = [pc EXCEPT ![p] = "done"]
    /\ tx' = [tx EXCEPT ![p] = NoTx]
    /\ resp' = [resp EXCEPT ![p] = Err(500, "database error")]
    /\ UNCHANGED <<siteVars, emailVars, dbVars, req, started, fnVars>>

\* A statement of the follow-up queueing fails at the database: queueEmail catches
\* the error of its own statements and returns (console.error('Queue email error'));
\* the handler catches a failing SELECT of the customer ('Email queueing error
\* (non-fatal)') and goes on to the response.
QueueEmailError(p) ==
    /\ pc[p] \in {"c_followup", "q_check", "q_template", "q_insert"}
    /\ IF pc[p] = "c_followup"
       THEN /\ tx' = tx
            /\ pc' = [pc EXCEPT ![p] = "c_respond"]
       ELSE /\ tx' = [tx EXCEPT ![p] = queueEmailReturn(tx[p]).tx]
            /\ pc' = [pc EXCEPT ![p] = queueEmailReturn(tx[p]).pc]
    /\ UNCHANGED <<siteVars, emailVars, dbVars, req, resp, started, fnVars>>

queueEmail(p) ==
    \/ QueueEmailCheck(p)
    \/ QueueEmailTemplate(p)
    \/ QueueEmailInsert(p)
    \/ QueueEmailError(p)

\* part_000 only, after COMMIT: maskedEmail: normalizedEmail.replace(...) throws a
\* TypeError when no email was submitted; the catch block answers 500.
CaptureRespond(p) ==
    /\ pc[p] = "c_respond"
    /\ pc' = [pc EXCEPT ![p] = "done"]
    /\ tx' = [tx EXCEPT ![p] = NoTx]
    /\ resp' = [resp EXCEPT ![p] =
                   IF tx[p].email = Null THEN Err(500, "TypeError") ELSE @]
    /\ UNCHANGED <<siteVars, emailVars, dbVars, req, started, fnVars>>

\* A statement of the open transaction fails (connection lost, deadlock victim,
\* statement timeout): catch (error) { ROLLBACK; res.status(500) }
CaptureDbError(p) ==
    /\ pc[p] \in {"c_email", "c_phone", "c_claim", "c_claim2", "c_upsert", "c_score",
                  "c_capture", "c_pipeline", "c_commit"}
    /\ Fail(p, 500, "database error")
    /\ UNCHANGED <<siteVars, emailVars, dbVars, req, started, fnVars>>

\* finally { client.release() }: the handler is free for the next request.
Finish(p) ==
    /\ pc[p] = "done"
    /\ req[p].kind # "process_emails"
    /\ pc' = [pc EXCEPT ![p] = "idle"]
    /\ req' = [req EXCEPT ![p] = NoReq]
    /\ resp' = [resp EXCEPT ![p] = NoResp]
    /\ tx' = [tx EXCEPT ![p] = NoTx]
    /\ UNCHANGED <<siteVars, emailVars, dbVars, started, fnVars>>

\* The handler of src/backend/server.js
CaptureBackend(p) ==
    \/ \E form \in Forms : CaptureBegin(p, form)
    \/ CaptureMatchEmail(p)
    \/ CaptureMatchPhone(p)
    \/ CaptureInsertCustomer(p)
    \/ CaptureUpdateCustomer(p)
    \/ CaptureScore(p)
    \/ \E draw \in CodeDraws : CaptureInsertCapture(p, draw)
    \/ CaptureCommit(p)
    \/ CaptureDbError(p)

\* The handler of src/unnamed/part_000
CaptureAntiAbuse(p) ==
    \/ \E form \in Forms : CaptureBegin(p, form)
    \/ CaptureMatchEmail(p)
    \/ CaptureClaimCheck(p)
    \/ CaptureDirectClaimCheck(p)
    \/ CaptureInsertCustomer(p)
    \/ CaptureUpdateCustomer(p)
    \/ CaptureScore(p)
    \/ \E draw \in CodeDraws : CaptureInsertCapture(p, draw)
    \/ CapturePipeline(p)
    \/ CaptureCommit(p)
    \/ CaptureFollowups(p)
    \/ FollowupConnectError(p)
    \/ queueEmail(p)
    \/ CaptureRespond(p)
    \/ CaptureDbError(p)

----------------------------------------------------------------------------
(* POST /api/import                                                        *)

Get(row, h) == IF h \in DOMAIN row THEN row[h] ELSE Null

\* a || b || c
Or3(a, b, c) == IF Truthy(a) THEN a ELSE IF Truthy(b) THEN b ELSE c

\* a || b || c || d
Or4(a, b, c, d) == IF Truthy(a) THEN a ELSE Or3(b, c, d)

\* Map fields based on source
mapFields(source, row) ==
    IF source = "golfnow" THEN
        [firstName |-> Or3(Get(row, "First Name"), Get(row, "first_name"), Get(row, "FirstName")),
         lastName |-> Or3(Get(row, "Last Name"), Get(row, "last_name"), Get(row, "LastName")),
         email |-> Or3(Get(row, "Email"), Get(row, "email"), Get(row, "E-mail")),
         phone |-> Or3(Get(row, "Phone"), Get(row, "phone"), Get(row, "Phone Number")),
         zip |-> Or3(Get(row, "Zip"), Get(row, "zip"), Get(row, "Postal Code"))]
    ELSE IF source = "clubessential" THEN
        [firstName |-> Or3(Get(row, "FirstName"), Get(row, "First Name"), Get(row, "first_name")),
         lastName |-> Or3(Get(row, "LastName"), Get(row, "Last Name"), Get(row, "last_name")),
         email |-> Or3(Get(row, "Email"), Get(row, "email"), Get(row, "EmailAddress")),
         phone |-> Or4(Get(row, "Phone"), Get(row, "phone"), Get(row, "MobilePhone"),
                       Get(row, "HomePhone")),
         zip |-> Or3(Get(row, "Zip"), Get(row, "zip"), Get(row, "PostalCode"))]
    ELSE
        [firstName |-> Or3(Get(row, "first_name"), Get(row, "firstName"), Get(row, "First Name")),
         lastName |-> Or3(Get(row, "last_name"), Get(row, "lastName"), Get(row, "Last Name")),
         email |-> OrElse(Get(row, "email"), Get(row, "Email")),
         phone |-> OrElse(Get(row, "phone"), Get(row, "Phone")),
         zip |-> OrElse(Get(row, "zip"), Get(row, "Zip"))]

\* row['id'] || row['ID'] || null
sourceId(row) == Or3(Get(row, "id"), Get(row, "ID"), Null)

\* INSERT INTO customers (course_id, first_name, last_name, email, phone, zip, source,
\* source_id): the other columns take their defaults, visit_count 0, last_visit_at
\* NULL, membership_score 0, is_membership_prospect false, created_at and updated_at
\* NOW().
importCustomerRow(source, mapped, normalizedEmail, normalizedPhone, source_id, now) ==
    [first_name |-> mapped.firstName, last_name |-> mapped.lastName,
     email |-> normalizedEmail, email_verified |-> FALSE,
     phone |-> normalizedPhone, phone_verified |-> FALSE, zip |-> mapped.zip,
     booking_source |-> "null", is_local |-> "null", play_frequency |-> "null",
     member_elsewhere |-> "null", first_time_visitor |-> "null",
     distance_miles |-> "null",
     visit_count |-> 0, last_visit_at |-> 0,
     membership_score |-> 0, is_membership_prospect |-> FALSE,
     source |-> source, source_id |-> source_id,
     created_at |-> now, updated_at |-> now]

\* The merge with the arguments of COALESCE in the order of the capture path: the
\* row's value wins over the stored one.
importMergeRowOverwrite(row, mapped, normalizedEmail, normalizedPhone, now) ==
    update_updated_at_column(
        [row EXCEPT !.first_name = COALESCE(mapped.firstName, @),
                    !.last_name = COALESCE(mapped.lastName, @),
                    !.email = COALESCE(normalizedEmail, @),
                    !.phone = COALESCE(normalizedPhone, @),
                    !.zip = COALESCE(mapped.zip, @)],
        now)

\* UPDATE customers SET x = COALESCE(x, $n) for the five contact columns, and the
\* trigger
importMergeRow(row, mapped, normalizedEmail, normalizedPhone, now) ==
    update_updated_at_column(
        [row EXCEPT !.first_name = COALESCE(@, mapped.firstName),
                    !.last_name = COALESCE(@, mapped.lastName),
                    !.email = COALESCE(@, normalizedEmail),
                    !.phone = COALESCE(@, normalizedPhone),
                    !.zip = COALESCE(@, mapped.zip)],
        now)

importRecord(source) ==
    [source |-> source, status |-> "processing", total_rows |-> 0, processed_rows |-> 0,
     new_customers |-> 0, matched_customers |-> 0, skipped_rows |-> 0, errors |-> 0]

\* The audit entry written with the number of the first row whatever the row.
importRowRecordFirstRow(customerId, rowNumber, action, matchType, message) ==
    [import_id |-> 0 - 1, customer_id |-> customerId, row_number |-> 1,
     action |-> action, match_type |-> matchType, error_message |-> message]

\* INSERT INTO import_rows (import_id, customer_id, row_number, raw_data, action, ...)
importRowRecord(customerId, rowNumber, action, matchType, message) ==
    [import_id |-> 0 - 1, customer_id |-> customerId, row_number |-> rowNumber,
     action |-> action, match_type |-> matchType, error_message |-> message]

\* BEGIN; const { courseSlug = 'crescent-pointe', source } = req.body; if (!file)
\* throw new Error('No file uploaded'); the course lookup, throw new Error('Course not
\* found'); INSERT INTO imports (... 'processing' ...); parse the CSV.
ImportBegin(p, upload) ==
    /\ pc[p] = "idle"
    /\ FirstIdle(p)
    /\ started < MaxRequests
    /\ started' = started + 1
    /\ LET records == IF upload.file = <<>> THEN <<>> ELSE upload.file[1]
       IN  /\ req' = [req EXCEPT ![p] = [kind |-> "import", source |-> upload.source,
                                         records |-> records]]
           /\ IF upload.file = <<>>
              THEN Fail(p, 500, "No file uploaded")
              ELSE IF COALESCE(upload.courseSlug, SlugDefault) \notin courseSlugs
              THEN Fail(p, 500, "Course not found")
              ELSE /\ tx' = [tx EXCEPT ![p] =
                                [NoTx EXCEPT !.open = TRUE, !.now = NOW, !.i = 1,
                                             !.imps = <<importRecord(upload.source)>>]]
                   /\ pc' = [pc EXCEPT ![p] = IF Len(records) = 0 THEN "i_finish"
                                              ELSE "i_row"]
                   /\ resp' = resp
    /\ UNCHANGED <<siteVars, emailVars, dbVars, fnVars>>

\* BEGIN fails, or for an upload with a file SELECT id FROM courses or INSERT INTO
\* imports (connection lost, statement timeout): the statement stands before the
\* loop of the rows, so the error reaches the outer catch with its own message
\* (ROLLBACK, 500) and nothing is stored.
ImportBeginError(p, upload) ==
    /\ pc[p] = "idle"
    /\ FirstIdle(p)
    /\ started < MaxRequests
    /\ started' = started + 1
    /\ req' = [req EXCEPT ![p] = [kind |-> "import", source |-> upload.source,
                                  records |-> IF upload.file = <<>> THEN <<>>
                                              ELSE upload.file[1]]]
    /\ Fail(p, 500, "database error")
    /\ UNCHANGED <<siteVars, emailVars, dbVars, fnVars>>

\* The loop left after the row at hand.
NextRowStop(p, t) == "i_finish"

\* for (let i = 0; i < records.length; i++): the next row, or the end of the loop
NextRow(p, t) == IF t.i < Len(req[p].records) THEN "i_row" ELSE "i_finish"

\* Map the row, normalise; skip it when it has neither key, else look the email up:
\* SELECT id FROM customers WHERE course_id = $1 AND email = $2
ImportRowStart(p) ==
    /\ pc[p] = "i_row"
    /\ LET mapped == mapFields(req[p].source, req[p].records[tx[p].i])
           normalizedEmail == normalizeEmail(mapped.email)
           normalizedPhone == normalizePhone(mapped.phone)
           t0 == [tx[p] EXCEPT !.mapped = mapped, !.email = normalizedEmail,
                               !.phone = normalizedPhone, !.customerId = 0,
                               !.matchType = "null", !.action = "null"]
           hits == IF Truthy(normalizedEmail)
                   THEN {id \in ViewIds(p) : ViewRow(p, id).email = normalizedEmail}
                   ELSE {}
       IN  IF ~Truthy(normalizedEmail) /\ ~Truthy(normalizedPhone)
           THEN /\ tx' = [tx EXCEPT ![p] =
                            [t0 EXCEPT !.skippedRows = @ + 1,
                                       !.irows = Append(@, importRowRecord(0, t0.i,
                                                     "skipped", "null", "No email or phone")),
                                       !.i = @ + 1]]
                /\ pc' = [pc EXCEPT ![p] = NextRow(p, t0)]
           ELSE /\ IF hits = {}
                   THEN tx' = [tx EXCEPT ![p] = t0]
                   ELSE \E id \in hits :
                          tx' = [tx EXCEPT ![p] = [t0 EXCEPT !.customerId = id,
                                                             !.matchType = "email"]]
                /\ pc' = [pc EXCEPT ![p] = "i_phone"]
    /\ UNCHANGED <<siteVars, emailVars, dbVars, req, resp, started, fnVars>>

\* if (!existingCustomer && normalizedPhone) SELECT id FROM customers WHERE ... phone = $2
ImportMatchPhone(p) ==
    /\ pc[p] = "i_phone"
    /\ LET hits == IF tx[p].customerId = 0 /\ Truthy(tx[p].phone)
                   THEN {id \in ViewIds(p) : ViewRow(p, id).phone = tx[p].phone}
                   ELSE {}
       IN  IF hits = {}
           THEN tx' = tx
           ELSE \E id \in hits :
                  tx' = [tx EXCEPT ![p].customerId = id, ![p].matchType = "phone"]
    /\ pc' = [pc EXCEPT ![p] = "i_write"]
    /\ UNCHANGED <<siteVars, emailVars, dbVars, req, resp, started, fnVars>>

\* A statement of the row failed: catch (rowError) { errors.push(...); INSERT INTO
\* import_rows (... 'error' ...) }.  The failed statement has aborted the
\* transaction, so PostgreSQL refuses that INSERT too ("current transaction is
\* aborted, commands ignored until end of transaction block"); it throws out of the
\* loop into the outer catch, which rolls the whole batch back and answers 500.
RowError(p) ==
    /\ Fail(p, 500, "current transaction is aborted")

\* if (existingCustomer) UPDATE customers SET ... COALESCE(column, $n) ... WHERE id = $1
ImportMerge(p) ==
    /\ pc[p] = "i_write"
    /\ tx[p].customerId # 0
    /\ LET id == tx[p].customerId
           row == importMergeRow(ViewRow(p, id), tx[p].mapped, tx[p].email, tx[p].phone,
                                 tx[p].now)
       IN  /\ ~RowLockedByOther(p, id)
           /\ ~OthersPending(p, id, row)
           /\ IF UniqueViolation(p, id, row)
              THEN RowError(p)
              ELSE /\ tx' = [tx EXCEPT ![p] = [WriteOwnRow(tx[p], id, row) EXCEPT
                                                  !.matchedCustomers = @ + 1,
                                                  !.action = "matched"]]
                   /\ pc' = [pc EXCEPT ![p] = "i_audit"]
                   /\ resp' = resp
    /\ UNCHANGED <<siteVars, emailVars, dbVars, req, started, fnVars>>

ImportSource == [s \in {"generic", "golfnow", "clubessential"} |->
                    CASE s = "generic" -> "generic_import"
                      [] s = "golfnow" -> "golfnow_import"
                      [] s = "clubessential" -> "clubessential_import"]

\* else INSERT INTO customers (...) VALUES (...) RETURNING id
ImportCreate(p) ==
    /\ pc[p] = "i_write"
    /\ tx[p].customerId = 0
    /\ LET row == importCustomerRow(ImportSource[req[p].source], tx[p].mapped,
                                    tx[p].email, tx[p].phone,
                                    sourceId(req[p].records[tx[p].i]), tx[p].now)
       IN  /\ ~OthersPending(p, 0, row)
           /\ IF UniqueViolation(p, 0, row)
              THEN RowError(p)
              ELSE /\ tx' = [tx EXCEPT ![p].ins = Append(@, row),
                                       ![p].customerId = 0 - (Len(tx[p].ins) + 1),
                                       ![p].newCustomers = @ + 1,
                                       ![p].action = "created"]
                   /\ pc' = [pc EXCEPT ![p] = "i_audit"]
                   /\ resp' = resp
    /\ UNCHANGED <<siteVars, emailVars, dbVars, req, started, fnVars>>

\* INSERT INTO import_rows (import_id, customer_id, row_number, raw_data, action,
\* match_type)
ImportRecordRow(p) ==
    /\ pc[p] = "i_audit"
    /\ tx' = [tx EXCEPT ![p].irows = Append(@, importRowRecord(tx[p].customerId, tx[p].i,
                                                 tx[p].action, tx[p].matchType, "")),
                        ![p].i = @ + 1]
    /\ pc' = [pc EXCEPT ![p] = NextRow(p, tx[p])]
    /\ UNCHANGED <<siteVars, emailVars, dbVars, req, resp, started, fnVars>>

\* A statement fails for a reason of the database's own: one of a row, which ends
\* as RowError does, or the UPDATE of the imports record or the COMMIT after the
\* loop, which throw into the outer catch (ROLLBACK, 500).
ImportDbError(p) ==
    /\ pc[p] \in {"i_row", "i_phone", "i_write", "i_audit", "i_finish"}
    /\ IF pc[p] = "i_finish" THEN Fail(p, 500, "database error") ELSE RowError(p)
    /\ UNCHANGED <<siteVars, emailVars, dbVars, req, started, fnVars>>

\* UPDATE imports SET status = 'completed', counters ...; COMMIT; res.json(stats)
ImportFinish(p) ==
    /\ pc[p] = "i_finish"
    /\ LET t == [tx[p] EXCEPT !.imps[1] =
                    [@ EXCEPT !.status = "completed",
                              !.total_rows = Len(req[p].records),
                              !.processed_rows = tx[p].newCustomers + tx[p].matchedCustomers,
                              !.new_customers = tx[p].newCustomers,
                              !.matched_customers = tx[p].matchedCustomers,
                              !.skipped_rows = tx[p].skippedRows,
                              !.errors = tx[p].errors]]
           base == Len(customers)
       IN  /\ customers' = [id \in 1..base |->
                               IF id \in DOMAIN t.upd THEN t.upd[id] ELSE customers[id]]
                           \o t.ins
           /\ imports' = imports \o t.imps
           /\ import_rows' = import_rows \o
                 [k \in 1..Len(t.irows) |->
                     [t.irows[k] EXCEPT !.customer_id = Resolve(base, @),
                                        !.import_id = Resolve(Len(imports), @)]]
    /\ UNCHANGED <<captures, pipeline>>
    /\ tx' = [tx EXCEPT ![p] = NoTx]
    /\ resp' = [resp EXCEPT ![p] = [NoResp EXCEPT !.status = 200]]
    /\ pc' = [pc EXCEPT ![p] = "done"]
    /\ UNCHANGED <<siteVars, emailVars, req, started, fnVars>>

Import(p) ==
    \/ \E upload \in ImportUploads : ImportBegin(p, upload)
    \/ \E upload \in ImportUploads : ImportBeginError(p, upload)
    \/ ImportRowStart(p)
    \/ ImportMatchPhone(p)
    \/ ImportMerge(p)
    \/ ImportCreate(p)
    \/ ImportRecordRow(p)
    \/ ImportDbError(p)
    \/ ImportFinish(p)

----------------------------------------------------------------------------
(* POST /api/rewards/:code/redeem                                          *)

NumRedeemers == 3    \* redemption requests in flight together
MaxCaptureRows == 2  \* captures rows present when the redemptions start

Redeemers == 1..NumRedeemers

\* Codes typed in at the bar: the first code in lower case, the second as issued,
\* and one that was never issued.
RedeemInputs ==
    {toLowerCase(generateRewardCode(<<"A", "B", "C", "2", "3", "4">>)),
     generateRewardCode(<<"X", "X", "X", "9", "9", "9">>),
     <<"C", "P", "2", "2", "2", "2", "2", "2">>}

StaffNames == {NameAl, NameBo}

\* WHERE reward_code = $1 AND reward_redeemed = false, on the rows of `table`
redeemable(table, code) ==
    {k \in 1..Len(table) : table[k].reward_code = code /\ ~table[k].reward_redeemed}

\* The request arrives: code.toUpperCase(); the UPDATE starts and finds, in its
\* snapshot, the rows its WHERE clause selects.
RedeemScan(p, code, redeemedBy) ==
    /\ pc[p] = "idle"
    /\ \A q \in Redeemers : q < p => pc[q] # "idle"
    /\ started' = started + 1
    /\ req' = [req EXCEPT ![p] = [kind |-> "redeem", code |-> code,
                                  redeemedBy |-> redeemedBy]]
    /\ tx' = [tx EXCEPT ![p] = [NoTx EXCEPT !.open = TRUE,
                                   !.rewardCode = toUpperCase(code),
                                   !.found = redeemable(captures, toUpperCase(code))]]
    /\ pc' = [pc EXCEPT ![p] = "r_update"]
    /\ UNCHANGED <<siteVars, emailVars, dbVars, resp, fnVars>>

\* The rows the statement updates, without looking at them again.
lockedRowsNoRecheck(found, table, code) == found

\* READ COMMITTED: each row found is locked and, when it was changed meanwhile, the
\* WHERE clause is evaluated again on its latest version.
lockedRows(found, table, code) == found \cap redeemable(table, code)

\* UPDATE captures SET reward_redeemed = true, reward_redeemed_at = NOW(),
\* reward_redeemed_by = $2 WHERE ... RETURNING *; 404 when no row comes back.
\* src/backend/server.js answers res.json({ success: true, capture }) at once;
\* part_000 first awaits the UPDATE of ab_test_results.
RedeemUpdate(p) ==
    /\ pc[p] = "r_update"
    /\ LET rows == lockedRows(tx[p].found, captures, tx[p].rewardCode)
       IN  /\ captures' = [k \in 1..Len(captures) |->
                             IF k \in rows
                             THEN [captures[k] EXCEPT !.reward_redeemed = TRUE,
                                                      !.reward_redeemed_at = started,
                                                      !.reward_redeemed_by = req[p].redeemedBy]
                             ELSE captures[k]]
           /\ IF rows = {}
              THEN /\ resp' = [resp EXCEPT ![p] =
                                  Err(404, "Code not found or already redeemed")]
                   /\ pc' = [pc EXCEPT ![p] = "done"]
                   /\ tx' = [tx EXCEPT ![p] = NoTx]
              ELSE IF service = "backend"
              THEN /\ resp' = [resp EXCEPT ![p] =
                                  [NoResp EXCEPT !.status = 200,
                                                 !.rewardCode = tx[p].rewardCode]]
                   /\ pc' = [pc EXCEPT ![p] = "done"]
                   /\ tx' = [tx EXCEPT ![p] = NoTx]
              ELSE /\ resp' = resp
                   /\ pc' = [pc EXCEPT ![p] = "r_abtest"]
                   /\ tx' = [tx EXCEPT ![p].found = rows]
    /\ UNCHANGED <<siteVars, emailVars, customers, pipeline, imports, import_rows, req, started,
                   fnVars>>

\* part_000 only: UPDATE ab_test_results SET redeemed = true WHERE capture_id = $1
\* (no statement of the server inserts into ab_test_results, so no row changes);
\* res.json({ success: true, capture })
RedeemAbTest(p) ==
    /\ pc[p] = "r_abtest"
    /\ resp' = [resp EXCEPT ![p] = [NoResp EXCEPT !.status = 200,
                                                  !.rewardCode = tx[p].rewardCode]]
    /\ pc' = [pc EXCEPT ![p] = "done"]
    /\ tx' = [tx EXCEPT ![p] = NoTx]
    /\ UNCHANGED <<siteVars, emailVars, dbVars, req, started, fnVars>>

\* The awaited statement fails (connection lost, statement timeout): catch (error)
\* { res.status(500).json({ error: error.message }) }.  Each statement is committed
\* on its own, so a failure of the second one leaves the captures row redeemed.
RedeemDbError(p) ==
    /\ pc[p] \in {"r_update", "r_abtest"}
    /\ resp' = [resp EXCEPT ![p] = Err(500, "database error")]
    /\ pc' = [pc EXCEPT ![p] = "done"]
    /\ tx' = [tx EXCEPT ![p] = NoTx]
    /\ UNCHANGED <<siteVars, emailVars, dbVars, req, started, fnVars>>

Redeem(p) ==
    \/ \E code \in RedeemInputs, by \in StaffNames : RedeemScan(p, code, by)
    \/ RedeemUpdate(p)
    \/ RedeemAbTest(p)
    \/ RedeemDbError(p)

----------------------------------------------------------------------------
(* GET /api/prospects                                                      *)

\* The values of the limit query parameter that are tried.
Limits == {1, 20}

\* WHERE ... AND c.is_local = true AND c.membership_score >= 50
prospectListed(row) == row.is_local = "true" /\ row.membership_score >= 50

\* ORDER BY c.membership_score DESC, c.visit_count DESC: r1 may come before r2
rankedBefore(r1, r2) ==
    \/ r1.membership_score > r2.membership_score
    \/ r1.membership_score = r2.membership_score /\ r1.visit_count >= r2.visit_count

\* LIMIT $2 on the ordered rows: the results the statement may return
limited(table, ids, limit) ==
    {S \in SUBSET ids :
        /\ Cardinality(S) = Min(limit, Cardinality(ids))
        /\ \A i \in S, j \in ids \ S : rankedBefore(table[i], table[j])}

\* const result = await pool.query(SELECT c.* ... LIMIT $2); res.json({ prospects })
GetProspects(p, limit) ==
    /\ pc[p] = "idle"
    /\ FirstIdle(p)
    /\ started < MaxRequests
    /\ started' = started + 1
    /\ req' = [req EXCEPT ![p] = [kind |-> "prospects", limit |-> limit]]
    /\ \E S \in limited(customers,
                         {id \in 1..Len(customers) : prospectListed(customers[id])},
                         limit) :
          resp' = [resp EXCEPT ![p] = [NoResp EXCEPT !.status = 200, !.prospects = S]]
    /\ pc' = [pc EXCEPT ![p] = "done"]
    /\ UNCHANGED <<siteVars, emailVars, dbVars, tx, fnVars>>

----------------------------------------------------------------------------
(* GET /api/export/customers and the CSV file                              *)

\* The characters of the column names and of the values of the enumerated and
\* boolean columns.
CsvText ==
    ("first_name" :> <<"f", "i", "r", "s", "t", "_", "n", "a", "m", "e">>) @@
    ("last_name" :> <<"l", "a", "s", "t", "_", "n", "a", "m", "e">>) @@
    ("email" :> <<"e", "m", "a", "i", "l">>) @@
    ("phone" :> <<"p", "h", "o", "n", "e">>) @@
    ("zip" :> <<"z", "i", "p">>) @@
    ("booking_source" :> <<"b", "o", "o", "k", "i", "n", "g", "_", "s", "o", "u", "r", "c", "e">>) @@
    ("is_local" :> <<"i", "s", "_", "l", "o", "c", "a", "l">>) @@
    ("play_frequency" :> <<"p", "l", "a", "y", "_", "f", "r", "e", "q", "u", "e", "n", "c", "y">>) @@
    ("member_elsewhere" :> <<"m", "e", "m", "b", "e", "r", "_", "e", "l", "s", "e", "w", "h", "e", "r", "e">>) @@
    ("visit_count" :> <<"v", "i", "s", "i", "t", "_", "c", "o", "u", "n", "t">>) @@
    ("membership_score" :> <<"m", "e", "m", "b", "e", "r", "s", "h", "i", "p", "_", "s", "c", "o", "r", "e">>) @@
    ("created_at" :> <<"c", "r", "e", "a", "t", "e", "d", "_", "a", "t">>) @@
    ("true" :> <<"t", "r", "u", "e">>) @@
    ("false" :> <<"f", "a", "l", "s", "e">>) @@
    ("weekly" :> <<"w", "e", "e", "k", "l", "y">>) @@
    ("monthly" :> <<"m", "o", "n", "t", "h", "l", "y">>) @@
    ("rarely" :> <<"r", "a", "r", "e", "l", "y">>) @@
    ("website" :> <<"w", "e", "b", "s", "i", "t", "e">>)

\* SELECT c.first_name, ..., c.created_at: Object.keys(result.rows[0])
exportColumns ==
    <<"first_name", "last_name", "email", "phone", "zip", "booking_source", "is_local", "play_frequency", "member_elsewhere", "visit_count", "membership_score", "created_at">>

\* String(n) of a number below 1000
RECURSIVE DecimalText(_)
DecimalText(n) ==
    LET digit == CASE n % 10 = 0 -> "0" [] n % 10 = 1 -> "1" [] n % 10 = 2 -> "2"
                   [] n % 10 = 3 -> "3" [] n % 10 = 4 -> "4" [] n % 10 = 5 -> "5"
                   [] n % 10 = 6 -> "6" [] n % 10 = 7 -> "7" [] n % 10 = 8 -> "8"
                   [] n % 10 = 9 -> "9"
    IN  IF n < 10 THEN <<digit>> ELSE DecimalText(n \div 10) \o <<digit>>

\* The seconds in which the instants `instants` may lie, numbered from 1: a later
\* instant lies in the same second as the one before it or in a later one.
secondsOf(instants) ==
    {seconds \in [instants -> 1..Cardinality(instants)] :
        /\ \A a, b \in instants : a <= b => seconds[a] <= seconds[b]
        /\ \A n \in 1..Cardinality(instants) :
               (\E a \in instants : seconds[a] = n)
               \/ (\A a \in instants : seconds[a] < n)}

\* String(created_at) of a row whose created_at lies in second `second`: the text of
\* a date to the second, without comma, quote or line break; two instants of one
\* second give the same text.
DateText(second) ==
    <<"F", "r", "i", " ", "O", "c", "t", " ", "3", "0", " ", "0", "0", ":">>
    \o DecimalText(second)

\* row[h] of a result row as text; NULL is Null.
exportCell(row, h, seconds) ==
    IF h \in {"first_name", "last_name", "email", "phone", "zip"} THEN row[h]
    ELSE IF h \in {"visit_count", "membership_score"} THEN DecimalText(row[h])
    ELSE IF h = "created_at" THEN DateText(seconds[row[h]])
    ELSE IF row[h] = "null" THEN Null
    ELSE CsvText[row[h]]

\* val.replace(/"/g, '""')
RECURSIVE doubleQuotes(_)
doubleQuotes(val) ==
    IF val = <<>> THEN <<>>
    ELSE (IF Head(val) = "\"" THEN <<"\"", "\"">> ELSE <<Head(val)>>)
         \o doubleQuotes(Tail(val))

\* if (val === null) return ''; if (val.includes(',') || val.includes('"')) return
\* `"${val.replace(/"/g, '""')}"`; return val
csvValue(val) ==
    IF val = Null THEN <<>>
    ELSE IF \E i \in 1..Len(val) : val[i] \in {",", "\""}
    THEN <<"\"">> \o doubleQuotes(val) \o <<"\"">>
    ELSE val

\* parts.join(sep)
RECURSIVE join(_, _)
join(parts, sep) ==
    IF parts = <<>> THEN <<>>
    ELSE IF Len(parts) = 1 THEN parts[1]
    ELSE parts[1] \o sep \o join(Tail(parts), sep)

\* The orders in which a SELECT without ORDER BY may return the rows `ids`.
rowOrders(ids) ==
    {order \in [1..Cardinality(ids) -> ids] :
        \A i, j \in 1..Cardinality(ids) : i # j => order[i] # order[j]}

\* ORDER BY c.created_at DESC: the orders in which the statement may return `rows`;
\* rows of one transaction have the same created_at and come in any order.
byCreatedAtDesc(rows) ==
    {order \in rowOrders(1..Len(rows)) :
        \A i, j \in 1..Len(rows) :
            i < j => rows[order[i]].created_at >= rows[order[j]].created_at}

\* csvRows = [headers.join(',')] and one line per row of the result, in its order;
\* csvRows.join('\n')
exportCsv(rows, order, seconds) ==
    LET line(id) == join([k \in 1..Len(exportColumns) |->
                             csvValue(exportCell(rows[id], exportColumns[k], seconds))],
                         <<",">>)
        header == join([k \in 1..Len(exportColumns) |-> CsvText[exportColumns[k]]],
                       <<",">>)
    IN  join(<<header>> \o [n \in 1..Len(rows) |-> line(order[n])], <<"\n">>)

\* The result of a parse that threw.
CsvError == [ok |-> FALSE, records |-> <<>>]

\* A field that cannot be read.
FieldError == [value |-> <<>>, blank |-> FALSE, end |-> "error", next |-> 0]

\* csv.parse(text, { columns: true, skip_empty_lines: true, trim: true }) of the
\* csv-parse package.  One field from position i on, character by character: st is
\* "start" at the beginning of the field, "unquoted" or "quoted" inside it, "closed"
\* after a closing quote.  The result is the field, what ended it and the position
\* after that, or FieldError.
RECURSIVE csvField(_, _, _, _)
csvField(text, i, st, field) ==
    LET done(end) == [value |-> IF st \in {"quoted", "closed"} THEN field ELSE trim(field),
                      blank |-> st = "start" /\ field = <<>>,
                      end |-> end, next |-> i + 1]
    IN  IF i > Len(text)
        THEN IF st = "quoted" THEN FieldError ELSE done("eof")
        ELSE LET c == text[i]
             IN  IF st = "quoted"
                 THEN IF c = "\""
                      THEN IF i < Len(text) /\ text[i + 1] = "\""
                           THEN csvField(text, i + 2, st, Append(field, c))
                           ELSE csvField(text, i + 1, "closed", field)
                      ELSE csvField(text, i + 1, st, Append(field, c))
                 ELSE IF c = "," THEN done(",")
                 ELSE IF c = "\n" THEN done("\n")
                 ELSE IF c = "\""
                 THEN IF st = "start" /\ trim(field) = <<>>
                      THEN csvField(text, i + 1, "quoted", <<>>)
                      ELSE FieldError
                 ELSE IF st = "closed"
                 THEN IF c = " " THEN csvField(text, i + 1, st, field) ELSE FieldError
                 ELSE csvField(text, i + 1,
                               IF c = " " /\ st = "start" THEN "start" ELSE "unquoted",
                               Append(field, c))

\* The records from position i on, each a sequence of fields; an empty line is no
\* record.
RECURSIVE csvScan(_, _, _, _)
csvScan(text, i, fields, records) ==
    LET f == csvField(text, i, "start", <<>>)
    IN  IF f.end = "error" THEN CsvError
        ELSE IF f.end = "," THEN csvScan(text, f.next, Append(fields, f.value), records)
        ELSE LET recs == IF fields = <<>> /\ f.blank THEN records
                         ELSE Append(records, Append(fields, f.value))
             IN  IF f.end = "eof" THEN [ok |-> TRUE, records |-> recs]
                 ELSE csvScan(text, f.next, <<>>, recs)

\* columns: true: the first record names the columns, and every other record has to
\* have as many fields; each becomes an object keyed by column name.
csvParse(text) ==
    LET scan == csvScan(text, 1, <<>>, <<>>)
        recs == scan.records
        name(cell) == IF \E h \in DOMAIN CsvText : CsvText[h] = cell
                      THEN CHOOSE h \in DOMAIN CsvText : CsvText[h] = cell
                      ELSE "other"
    IN  IF ~scan.ok THEN CsvError
        ELSE IF recs = <<>> THEN scan
        ELSE IF \E n \in 2..Len(recs) : Len(recs[n]) # Len(recs[1]) THEN CsvError
        ELSE [ok |-> TRUE,
              records |->
                 [n \in 1..(Len(recs) - 1) |->
                     [h \in {name(recs[1][k]) : k \in 1..Len(recs[1])} |->
                         LET k == CHOOSE j \in 1..Len(recs[1]) : name(recs[1][j]) = h
                         IN  recs[n + 1][k]]]]

\* The isProspect and isLocal query parameters that are tried.
ExportFilters ==
    {[isProspect |-> "null", isLocal |-> "null"],
     [isProspect |-> "true", isLocal |-> "null"],
     [isProspect |-> "null", isLocal |-> "true"]}

\* WHERE co.slug = $1 [AND c.is_membership_prospect = true] [AND c.is_local = true]
exportRows(table, filter) ==
    SelectSeq(table, LAMBDA row :
        /\ filter.isProspect = "true" => row.is_membership_prospect
        /\ filter.isLocal = "true" => row.is_local = "true")

\* GET /api/export/customers: 404 without rows, else the CSV text
ExportCustomers(p, filter) ==
    /\ pc[p] = "idle"
    /\ FirstIdle(p)
    /\ started < MaxRequests
    /\ started' = started + 1
    /\ req' = [req EXCEPT ![p] = [kind |-> "export", filter |-> filter]]
    /\ LET rows == exportRows(customers, filter)
       IN  \E order \in byCreatedAtDesc(rows),
              seconds \in secondsOf({rows[n].created_at : n \in 1..Len(rows)}) :
              resp' = [resp EXCEPT ![p] =
                          IF rows = <<>> THEN Err(404, "No customers found")
                          ELSE [NoResp EXCEPT !.status = 200,
                                              !.body = exportCsv(rows, order, seconds)]]
    /\ pc' = [pc EXCEPT ![p] = "done"]
    /\ UNCHANGED <<siteVars, emailVars, dbVars, tx, fnVars>>

\* POST /api/import with the file that handler q has just served and the generic
\* mapping: BEGIN; INSERT INTO imports; csv.parse(file.buffer.toString(), ...), which
\* throws into the outer catch on a malformed file.
ImportUpload(p, q) ==
    /\ pc[p] = "idle"
    /\ FirstIdle(p)
    /\ started < MaxRequests
    /\ pc[q] = "done" /\ req[q].kind = "export" /\ resp[q].status = 200
    /\ started' = started + 1
    /\ LET parsed == csvParse(resp[q].body)
       IN  /\ req' = [req EXCEPT ![p] = [kind |-> "import", source |-> "generic",
                                         records |-> parsed.records, exported |-> TRUE]]
           /\ IF parsed.ok
              THEN /\ tx' = [tx EXCEPT ![p] = [NoTx EXCEPT !.open = TRUE, !.now = NOW,
                                                   !.i = 1,
                                                   !.imps = <<importRecord("generic")>>]]
                   /\ pc' = [pc EXCEPT ![p] = IF parsed.records = <<>> THEN "i_finish"
                                              ELSE "i_row"]
                   /\ resp' = resp
              ELSE Fail(p, 500, "Invalid Record Length")
    /\ UNCHANGED <<siteVars, emailVars, dbVars, fnVars>>

----------------------------------------------------------------------------
(* /api/admin/pipeline of part_000                                         *)

\* The customer ids staff send.
PipelineCustomerIds == {1, 2}

\* The bodies of PUT /api/admin/pipeline/:customerId that are tried; a field that is
\* not sent is "undefined".
PipelineUpdates ==
    {[status |-> "contacted", notes |-> "undefined", assigned_to |-> "pro"],
     [status |-> "undefined", notes |-> "called", assigned_to |-> "undefined"]}

\* if (x !== undefined) fields.push(`x = $n`)
pipelineUpdateRow(row, body) ==
    [row EXCEPT !.status = IF body.status # "undefined" THEN body.status ELSE @,
                !.notes = IF body.notes # "undefined" THEN body.notes ELSE @,
                !.assigned_to = IF body.assigned_to # "undefined"
                                THEN body.assigned_to ELSE @]

\* POST /api/admin/pipeline: INSERT ... VALUES ($1, $2, 'new') ON CONFLICT (customer_id)
\* DO NOTHING RETURNING *; no row returned is answered with 400.
AdminPipelineAdd(p, customerId) ==
    /\ pc[p] = "idle"
    /\ FirstIdle(p)
    /\ started < MaxRequests
    /\ ~PipelinePending(p, customerId)
    /\ started' = started + 1
    /\ req' = [req EXCEPT ![p] = [kind |-> "pipeline_add", customerId |-> customerId]]
    /\ LET rows == pipelineInsert(pipeline, customerId)
       IN  IF customerId \notin 1..Len(customers)
           THEN /\ resp' = [resp EXCEPT ![p] = Err(500, "violates foreign key constraint")]
                /\ pipeline' = pipeline
           ELSE IF rows = <<>>
           THEN /\ resp' = [resp EXCEPT ![p] = Err(400, "Customer already in pipeline")]
                /\ pipeline' = pipeline
           ELSE /\ resp' = [resp EXCEPT ![p] = [NoResp EXCEPT !.status = 200,
                                                              !.customerId = customerId]]
                /\ pipeline' = pipeline \o [k \in 1..Len(rows) |-> pipelineRow(rows[k])]
    /\ pc' = [pc EXCEPT ![p] = "done"]
    /\ UNCHANGED <<siteVars, emailVars, customers, captures, imports, import_rows, tx, fnVars>>

\* PUT /api/admin/pipeline/:customerId: UPDATE prospect_pipeline SET ... WHERE
\* customer_id = $n RETURNING *; no row returned is answered with 404.
AdminPipelineUpdate(p, customerId, body) ==
    /\ pc[p] = "idle"
    /\ FirstIdle(p)
    /\ started < MaxRequests
    /\ started' = started + 1
    /\ req' = [req EXCEPT ![p] = [kind |-> "pipeline_update", customerId |-> customerId,
                                  body |-> body]]
    /\ pipeline' = [k \in 1..Len(pipeline) |->
                       IF pipeline[k].customer_id = customerId
                       THEN pipelineUpdateRow(pipeline[k], body)
                       ELSE pipeline[k]]
    /\ resp' = [resp EXCEPT ![p] =
                   IF \E k \in 1..Len(pipeline) : pipeline[k].customer_id = customerId
                   THEN [NoResp EXCEPT !.status = 200, !.customerId = customerId]
                   ELSE Err(404, "Pipeline entry not found")]
    /\ pc' = [pc EXCEPT ![p] = "done"]
    /\ UNCHANGED <<siteVars, emailVars, customers, captures, imports, import_rows, tx, fnVars>>

AdminPipeline(p) ==
    \/ \E customerId \in PipelineCustomerIds : AdminPipelineAdd(p, customerId)
    \/ \E customerId \in PipelineCustomerIds, body \in PipelineUpdates :
          AdminPipelineUpdate(p, customerId, body)

----------------------------------------------------------------------------
(* calculateMembershipScore as a function of the customer row              *)

MaxVisits == 6       \* largest visit_count the score is evaluated on

ScoreInputs ==
    [is_local : {"true", "false", "null"},
     play_frequency : {"weekly", "monthly", "rarely", "daily", "null"},
     visit_count : 0..MaxVisits,
     member_elsewhere : {"true", "false", "null"},
     email : {Null, <<>>, EmailA},
     phone : {Null, Phone1},
     zip : {Null, <<>>, Zip1}]

NoResult == [done |-> FALSE, value |-> 0]

ScoreApply ==
    /\ ~fnResult.done
    /\ fnResult' = [done |-> TRUE, value |-> calculateMembershipScore(fnArg)]
    /\ UNCHANGED <<siteVars, emailVars, dbVars, pc, req, tx, resp, started, fnArg>>

----------------------------------------------------------------------------
(* Team management of part_000: /api/admin/users                           *)

\* The requests and the calls of seedDefaultAdmin that are started, and the users of
\* the team at the start.
MaxTeamRequests == 3
NumAdminUsers == 2

\* The address of a user that is added to the team, as typed in and as stored.
EmailC_raw == <<"C", "@", "x">>
EmailC == <<"c", "@", "x">>

\* Stands for 'joshmedina008@gmail.com', the address of the default admin.
DefaultAdminEmail == <<"o", "@", "x">>

\* INSERT INTO admin_users (course_id, email, password_hash, name, role): is_active
\* takes the default true
adminRow(email, role) == [email |-> email, role |-> role, is_active |-> TRUE]

\* The team at the start: every user is an active admin.
SeededAdmins ==
    [id \in 1..NumAdminUsers |-> adminRow(IF id = 1 THEN EmailA ELSE EmailB, "admin")]

\* Every user of the team has logged in: jwt.sign({ id: user.id, ..., role:
\* user.role, ... }) has issued a token for each.
SeededTokens == {[id |-> id, role |-> SeededAdmins[id].role] : id \in 1..NumAdminUsers}

\* process.env of a server without SETUP_TOKEN and DEFAULT_ADMIN_PASSWORD
NoEnv == [SETUP_TOKEN |-> FALSE, DEFAULT_ADMIN_PASSWORD |-> FALSE]

Envs == [SETUP_TOKEN : BOOLEAN, DEFAULT_ADMIN_PASSWORD : BOOLEAN]

\* The team and the tokens at the start, on a server with environment e.
SeededTeam(e) ==
    /\ admin_users = SeededAdmins
    /\ admin_users_created = NumAdminUsers
    /\ tokens = SeededTokens
    /\ env = e

\* requireAdmin: req.user is the payload of the token, and the role is read from it,
\* not from the table.
requireAdmin(token) == token.role = "admin"

\* SELECT id FROM admin_users WHERE email = $1
emailTaken(email) == \E u \in DOMAIN admin_users : admin_users[u].email = email

\* INSERT INTO admin_users (...) VALUES (...): the new row gets an id that no row
\* has had before.
adminInsert(email, role) ==
    admin_users @@ ((admin_users_created + 1) :> adminRow(email, role))

\* The ids in the paths of PUT and DELETE /api/admin/users/:id: the seeded users and
\* the first one added.
UserIds == 1..(NumAdminUsers + 1)

\* The bodies of PUT /api/admin/users/:id that are tried; a field that is not sent is
\* "undefined".
UserUpdates ==
    {[role |-> "staff", is_active |-> "undefined"],
     [role |-> "", is_active |-> "undefined"],
     [role |-> "undefined", is_active |-> "false"],
     [role |-> "admin", is_active |-> "true"],
     [role |-> "undefined", is_active |-> "undefined"]}

\* Prevent deactivating yourself
deactivatesSelf(user, id, body) == id = user /\ body.is_active = "false"

\* Prevent demoting yourself: if (String(id) === String(req.user.id) && role &&
\* role !== 'admin'), where a role that is not sent, null or '' is falsy
demotesSelf(user, id, body) ==
    id = user /\ body.role \notin {"undefined", "null", ""} /\ body.role # "admin"

\* PUT /api/admin/users/:id with a token: requireAdmin, the self checks, then
\* UPDATE admin_users SET role = ..., is_active = ... WHERE id = $n RETURNING ...
AdminUserUpdate(p, token, id, body) ==
    /\ pc[p] = "idle"
    /\ FirstIdle(p)
    /\ started < MaxTeamRequests
    /\ started' = started + 1
    /\ req' = [req EXCEPT ![p] = [kind |-> "user_update", user |-> token.id, id |-> id,
                                  body |-> body]]
    /\ IF ~requireAdmin(token)
       THEN /\ resp' = [resp EXCEPT ![p] = Err(403, "Admin access required.")]
            /\ admin_users' = admin_users
       ELSE IF deactivatesSelf(token.id, id, body)
       THEN /\ resp' = [resp EXCEPT ![p] =
                           Err(400, "You cannot deactivate your own account.")]
            /\ admin_users' = admin_users
       ELSE IF demotesSelf(token.id, id, body)
       THEN /\ resp' = [resp EXCEPT ![p] = Err(400, "You cannot change your own role.")]
            /\ admin_users' = admin_users
       ELSE IF body.role = "undefined" /\ body.is_active = "undefined"
       THEN /\ resp' = [resp EXCEPT ![p] = Err(400, "No fields to update.")]
            /\ admin_users' = admin_users
       ELSE IF id \notin DOMAIN admin_users
       THEN /\ resp' = [resp EXCEPT ![p] = Err(404, "User not found.")]
            /\ admin_users' = admin_users
       ELSE /\ resp' = [resp EXCEPT ![p] = [NoResp EXCEPT !.status = 200]]
            /\ admin_users' = [admin_users EXCEPT
                  ![id].role = IF body.role # "undefined" THEN body.role ELSE @,
                  ![id].is_active = IF body.is_active # "undefined"
                                    THEN body.is_active = "true" ELSE @]
    /\ pc' = [pc EXCEPT ![p] = "done"]
    /\ UNCHANGED <<service, email_templates, admin_users_created, tokens, env,
                   emailVars, dbVars, tx, fnVars>>

\* DELETE /api/admin/users/:id with a token: requireAdmin, the self check, then
\* SELECT COUNT(*) FROM admin_users WHERE role = 'admin' AND is_active = true
AdminUserDeleteCount(p, token, id) ==
    /\ pc[p] = "idle"
    /\ FirstIdle(p)
    /\ started < MaxTeamRequests
    /\ started' = started + 1
    /\ req' = [req EXCEPT ![p] = [kind |-> "user_delete", user |-> token.id, id |-> id]]
    /\ IF ~requireAdmin(token)
       THEN /\ resp' = [resp EXCEPT ![p] = Err(403, "Admin access required.")]
            /\ pc' = [pc EXCEPT ![p] = "done"]
            /\ tx' = tx
       ELSE IF id = token.id
       THEN /\ resp' = [resp EXCEPT ![p] = Err(400, "You cannot delete your own account.")]
            /\ pc' = [pc EXCEPT ![p] = "done"]
            /\ tx' = tx
       ELSE /\ resp' = resp
            /\ pc' = [pc EXCEPT ![p] = "d_target"]
            /\ tx' = [tx EXCEPT ![p] =
                         [NoTx EXCEPT !.adminCount = Cardinality({u \in DOMAIN admin_users :
                              admin_users[u].role = "admin" /\ admin_users[u].is_active})]]
    /\ UNCHANGED <<siteVars, emailVars, dbVars, fnVars>>

\* SELECT role FROM admin_users WHERE id = $1; 404 without a row; 400 for the last
\* admin
AdminUserDeleteTarget(p) ==
    /\ pc[p] = "d_target"
    /\ LET id == req[p].id
       IN  IF id \notin DOMAIN admin_users
           THEN /\ resp' = [resp EXCEPT ![p] = Err(404, "User not found.")]
                /\ pc' = [pc EXCEPT ![p] = "done"]
                /\ tx' = [tx EXCEPT ![p] = NoTx]
           ELSE IF admin_users[id].role = "admin" /\ tx[p].adminCount <= 1
           THEN /\ resp' = [resp EXCEPT ![p] =
                               Err(400, "Cannot delete the last admin user.")]
                /\ pc' = [pc EXCEPT ![p] = "done"]
                /\ tx' = [tx EXCEPT ![p] = NoTx]
           ELSE /\ resp' = resp
                /\ pc' = [pc EXCEPT ![p] = "d_delete"]
                /\ tx' = [tx EXCEPT ![p].targetRole = admin_users[id].role]
    /\ UNCHANGED <<siteVars, emailVars, dbVars, req, started, fnVars>>

\* DELETE FROM admin_users WHERE id = $1; res.json({ success: true })
AdminUserDelete(p) ==
    /\ pc[p] = "d_delete"
    /\ admin_users' = [u \in DOMAIN admin_users \ {req[p].id} |-> admin_users[u]]
    /\ resp' = [resp EXCEPT ![p] = [NoResp EXCEPT !.status = 200]]
    /\ pc' = [pc EXCEPT ![p] = "done"]
    /\ tx' = [tx EXCEPT ![p] = NoTx]
    /\ UNCHANGED <<service, email_templates, admin_users_created, tokens, env,
                   emailVars, dbVars, req, started, fnVars>>

\* POST /api/auth/login: SELECT au.* FROM admin_users au ... WHERE au.email = $1 AND
\* au.is_active = true (email is UNIQUE), 401 without a row; bcrypt.compare, 401 for
\* another password
AuthLogin(p, email, validPassword) ==
    /\ pc[p] = "idle"
    /\ FirstIdle(p)
    /\ started < MaxTeamRequests
    /\ started' = started + 1
    /\ req' = [req EXCEPT ![p] = [kind |-> "login", email |-> email,
                                  validPassword |-> validPassword]]
    /\ LET result == {u \in DOMAIN admin_users :
                         /\ admin_users[u].email = toLowerCase(email)
                         /\ admin_users[u].is_active}
       IN  IF result = {} \/ ~validPassword
           THEN /\ resp' = [resp EXCEPT ![p] = Err(401, "Invalid email or password")]
                /\ pc' = [pc EXCEPT ![p] = "done"]
                /\ tx' = tx
           ELSE LET user == CHOOSE u \in result : TRUE
                IN  /\ resp' = resp
                    /\ pc' = [pc EXCEPT ![p] = "l_token"]
                    /\ tx' = [tx EXCEPT ![p] =
                                 [NoTx EXCEPT !.user = user,
                                              !.targetRole = admin_users[user].role]]
    /\ UNCHANGED <<siteVars, emailVars, dbVars, fnVars>>

\* UPDATE admin_users SET last_login = NOW() WHERE id = $1; jwt.sign({ id: user.id,
\* ..., role: user.role, ... }) with the row that the SELECT returned; res.json
AuthLoginToken(p) ==
    /\ pc[p] = "l_token"
    /\ tokens' = tokens \cup {[id |-> tx[p].user, role |-> tx[p].targetRole]}
    /\ resp' = [resp EXCEPT ![p] = [NoResp EXCEPT !.status = 200]]
    /\ pc' = [pc EXCEPT ![p] = "done"]
    /\ tx' = [tx EXCEPT ![p] = NoTx]
    /\ UNCHANGED <<service, email_templates, admin_users, admin_users_created, env,
                   emailVars, dbVars, req, started, fnVars>>

\* POST /api/auth/register with a token, email, password and name: requireAdmin;
\* const { role = 'staff' } = req.body; SELECT id FROM admin_users WHERE email = $1,
\* 400 when the user exists
AuthRegister(p, token, email, role) ==
    /\ pc[p] = "idle"
    /\ FirstIdle(p)
    /\ started < MaxTeamRequests
    /\ started' = started + 1
    /\ req' = [req EXCEPT ![p] =
                  [kind |-> "register", user |-> token.id, email |-> email,
                   role |-> IF role = "undefined" THEN "staff" ELSE role]]
    /\ IF ~requireAdmin(token)
       THEN /\ resp' = [resp EXCEPT ![p] = Err(403, "Admin access required.")]
            /\ pc' = [pc EXCEPT ![p] = "done"]
       ELSE IF emailTaken(toLowerCase(email))
       THEN /\ resp' = [resp EXCEPT ![p] =
                           Err(400, "User with this email already exists")]
            /\ pc' = [pc EXCEPT ![p] = "done"]
       ELSE /\ resp' = resp
            /\ pc' = [pc EXCEPT ![p] = "g_insert"]
    /\ UNCHANGED <<siteVars, emailVars, dbVars, tx, fnVars>>

\* POST /api/setup with a token, email, password and name: 404 without SETUP_TOKEN,
\* 403 for another token; SELECT id FROM admin_users WHERE email = $1, 400 when the
\* user exists; the role is 'admin'
Setup(p, tokenMatches, email) ==
    /\ pc[p] = "idle"
    /\ FirstIdle(p)
    /\ started < MaxTeamRequests
    /\ started' = started + 1
    /\ req' = [req EXCEPT ![p] = [kind |-> "setup", tokenMatches |-> tokenMatches,
                                  email |-> email, role |-> "admin"]]
    /\ IF ~env.SETUP_TOKEN
       THEN /\ resp' = [resp EXCEPT ![p] = Err(404, "Not found")]
            /\ pc' = [pc EXCEPT ![p] = "done"]
       ELSE IF ~tokenMatches
       THEN /\ resp' = [resp EXCEPT ![p] = Err(403, "Invalid setup token")]
            /\ pc' = [pc EXCEPT ![p] = "done"]
       ELSE IF emailTaken(toLowerCase(email))
       THEN /\ resp' = [resp EXCEPT ![p] = Err(400, "User already exists")]
            /\ pc' = [pc EXCEPT ![p] = "done"]
       ELSE /\ resp' = resp
            /\ pc' = [pc EXCEPT ![p] = "g_insert"]
    /\ UNCHANGED <<siteVars, emailVars, dbVars, tx, fnVars>>

\* Register and setup: INSERT INTO admin_users (course_id, email, password_hash, name,
\* role) VALUES ($1, $2, $3, $4, $5) RETURNING ...; res.status(201); email is UNIQUE,
\* and the violation is answered 500 by the catch block
AdminUserInsert(p) ==
    /\ pc[p] = "g_insert"
    /\ IF emailTaken(toLowerCase(req[p].email))
       THEN /\ resp' = [resp EXCEPT ![p] = Err(500, "unique_violation")]
            /\ UNCHANGED <<admin_users, admin_users_created>>
       ELSE /\ resp' = [resp EXCEPT ![p] = [NoResp EXCEPT !.status = 201]]
            /\ admin_users' = adminInsert(toLowerCase(req[p].email), req[p].role)
            /\ admin_users_created' = admin_users_created + 1
    /\ pc' = [pc EXCEPT ![p] = "done"]
    /\ UNCHANGED <<service, email_templates, tokens, env, emailVars, dbVars, req, tx,
                   started, fnVars>>

\* seedDefaultAdmin, called when the server starts to listen: SELECT COUNT(*) FROM
\* admin_users; return when there is a row or without DEFAULT_ADMIN_PASSWORD
SeedCount(p) ==
    /\ pc[p] = "idle"
    /\ FirstIdle(p)
    /\ started < MaxTeamRequests
    /\ started' = started + 1
    /\ req' = [req EXCEPT ![p] = [kind |-> "seed"]]
    /\ pc' = [pc EXCEPT ![p] =
                 IF DOMAIN admin_users # {} \/ ~env.DEFAULT_ADMIN_PASSWORD
                 THEN "done" ELSE "sd_insert"]
    /\ UNCHANGED <<siteVars, emailVars, dbVars, tx, resp, fnVars>>

\* seedDefaultAdmin: INSERT INTO admin_users (...) VALUES ($1, 'joshmedina008@gmail.com',
\* $3, 'Josh Medina', 'admin'); an error is caught and logged
SeedInsert(p) ==
    /\ pc[p] = "sd_insert"
    /\ IF emailTaken(DefaultAdminEmail)
       THEN UNCHANGED <<admin_users, admin_users_created>>
       ELSE /\ admin_users' = adminInsert(DefaultAdminEmail, "admin")
            /\ admin_users_created' = admin_users_created + 1
    /\ pc' = [pc EXCEPT ![p] = "done"]
    /\ UNCHANGED <<service, email_templates, tokens, env, emailVars, dbVars, req, tx,
                   resp, started, fnVars>>

seedDefaultAdmin(p) == SeedCount(p) \/ SeedInsert(p)

\* The addresses that are typed in at login, registration and setup.
LoginEmails == {EmailA, EmailB, EmailC_raw, DefaultAdminEmail}
NewUserEmails == {EmailC_raw, EmailA}

AdminUsers(p) ==
    \/ \E token \in tokens, id \in UserIds, body \in UserUpdates :
          AdminUserUpdate(p, token, id, body)
    \/ \E token \in tokens, id \in UserIds : AdminUserDeleteCount(p, token, id)
    \/ AdminUserDeleteTarget(p)
    \/ AdminUserDelete(p)
    \/ \E email \in LoginEmails, validPassword \in BOOLEAN :
          AuthLogin(p, email, validPassword)
    \/ AuthLoginToken(p)
    \/ \E token \in tokens, email \in NewUserEmails, role \in {"undefined", "admin"} :
          AuthRegister(p, token, email, role)
    \/ \E tokenMatches \in BOOLEAN, email \in NewUserEmails :
          Setup(p, tokenMatches, email)
    \/ AdminUserInsert(p)
    \/ seedDefaultAdmin(p)

----------------------------------------------------------------------------
(* The email queue of part_000: processEmailQueue and unsubscribe          *)

NumEmailProcs == 2      \* calls and requests that may be under way together
MaxEmailRequests == 3   \* calls and requests accepted in one run
MaxOptOutRequests == 2  \* the same, where captures and admin requests run alongside
EmailProcs == 1..NumEmailProcs

\* The next call is numbered after those under way.
FirstFree(p) == \A q \in EmailProcs : q < p => pc[q] # "idle"

NoRun == [pending |-> <<>>, i |-> 0, sent |-> 0, failed |-> 0]

\* No email has been queued and no call of processEmailQueue is under way.
NoEmail(procs) ==
    /\ email_queue = <<>>
    /\ email_logs = <<>>
    /\ opted_out_email = {}
    /\ sendgrid = FALSE
    /\ outbox = <<>>
    /\ run = [p \in procs |-> NoRun]
    /\ email_templates = SeededTemplates
    /\ SeededTeam(NoEnv)

\* ORDER BY eq.scheduled_for ASC on the rows `ids` of the table: the orders in
\* which the statement may return them; rows of the same scheduled_for come in any
\* order.
byScheduledFor(table, ids) ==
    {order \in rowOrders(ids) :
        \A i, j \in 1..Cardinality(ids) :
            i < j => table[order[i]].scheduled_for <= table[order[j]].scheduled_for}

\* SELECT eq.* FROM email_queue eq ... WHERE eq.status = 'pending' AND
\* eq.scheduled_for <= NOW() ORDER BY eq.scheduled_for ASC LIMIT 50: the results the
\* statement may return
pendingRows(table) ==
    byScheduledFor(table,
                   {k \in 1..Len(table) : table[k].status = "pending" /\ table[k].due})

\* for (const email of pending.rows): where the call goes on
NextEmail(r) ==
    IF r.i > Len(r.pending) THEN "done"
    ELSE IF sendgrid THEN "e_send" ELSE "e_mark"

\* The setInterval timer or GET /api/admin/process-emails calls processEmailQueue:
\* const pending = await pool.query(SELECT ...)
ProcessSelect(p) ==
    /\ pc[p] = "idle"
    /\ FirstFree(p)
    /\ started < MaxEmailRequests
    /\ started' = started + 1
    /\ req' = [req EXCEPT ![p] = [kind |-> "process_emails"]]
    /\ \E pending \in pendingRows(email_queue) :
          LET r == [NoRun EXCEPT !.pending = pending, !.i = 1]
          IN  /\ run' = [run EXCEPT ![p] = r]
              /\ pc' = [pc EXCEPT ![p] = NextEmail(r)]
    /\ UNCHANGED <<siteVars, dbVars, tx, resp, fnVars,
                   email_queue, email_logs, opted_out_email, sendgrid, outbox>>

\* The SELECT fails at the database: the catch around the body of the function logs
\* 'Email processor error', and the call returns with nothing sent.
ProcessSelectError(p) ==
    /\ pc[p] = "idle"
    /\ FirstFree(p)
    /\ started < MaxEmailRequests
    /\ started' = started + 1
    /\ req' = [req EXCEPT ![p] = [kind |-> "process_emails"]]
    /\ pc' = [pc EXCEPT ![p] = "done"]
    /\ UNCHANGED <<siteVars, dbVars, tx, resp, fnVars, emailVars>>

\* const [response] = await sgMail.send(msg): delivered, or it throws
ProcessSend(p, delivered) ==
    /\ pc[p] = "e_send"
    /\ outbox' = IF delivered THEN Append(outbox, run[p].pending[run[p].i]) ELSE outbox
    /\ pc' = [pc EXCEPT ![p] = IF delivered THEN "e_mark" ELSE "e_fail"]
    /\ UNCHANGED <<siteVars, dbVars, req, tx, resp, started, fnVars,
                   email_queue, email_logs, opted_out_email, sendgrid, run>>

\* UPDATE email_queue SET status = 'sent', sent_at = NOW() WHERE id = $1
ProcessMarkSent(p) ==
    /\ pc[p] = "e_mark"
    /\ email_queue' = [email_queue EXCEPT ![run[p].pending[run[p].i]].status = "sent"]
    /\ pc' = [pc EXCEPT ![p] = "e_log"]
    /\ UNCHANGED <<siteVars, dbVars, req, tx, resp, started, fnVars,
                   email_logs, opted_out_email, sendgrid, outbox, run>>

\* INSERT INTO email_logs (queue_id, ...) VALUES ($1, ...); sent++
ProcessLog(p) ==
    /\ pc[p] = "e_log"
    /\ email_logs' = Append(email_logs, run[p].pending[run[p].i])
    /\ LET r == [run[p] EXCEPT !.sent = @ + 1, !.i = @ + 1]
       IN  /\ run' = [run EXCEPT ![p] = r]
           /\ pc' = [pc EXCEPT ![p] = NextEmail(r)]
    /\ UNCHANGED <<siteVars, dbVars, req, tx, resp, started, fnVars,
                   email_queue, opted_out_email, sendgrid, outbox>>

\* A statement of the loop fails at the database.  With SendGrid the UPDATE to
\* 'sent' and the INSERT INTO email_logs stand in the try of the entry, so that
\* catch (sendErr) takes over; without it (development mode) they stand in the outer
\* try only, whose catch ends the loop.  A failing UPDATE to 'failed' is thrown out
\* of catch (sendErr) into the outer catch as well.
ProcessDbError(p) ==
    /\ pc[p] \in {"e_mark", "e_log", "e_fail"}
    /\ req[p].kind = "process_emails"
    /\ pc' = [pc EXCEPT ![p] = IF sendgrid /\ pc[p] # "e_fail" THEN "e_fail" ELSE "done"]
    /\ UNCHANGED <<siteVars, dbVars, req, tx, resp, started, fnVars, emailVars>>

\* catch (sendErr), entered when sgMail.send, the UPDATE to 'sent' or the INSERT INTO
\* email_logs has thrown: UPDATE email_queue SET status = 'failed', error_message =
\* $2 WHERE id = $1; failed++
ProcessMarkFailed(p) ==
    /\ pc[p] = "e_fail"
    /\ email_queue' = [email_queue EXCEPT
                          ![run[p].pending[run[p].i]].status = "failed",
                          ![run[p].pending[run[p].i]].error_message = "sendErr"]
    /\ LET r == [run[p] EXCEPT !.failed = @ + 1, !.i = @ + 1]
       IN  /\ run' = [run EXCEPT ![p] = r]
           /\ pc' = [pc EXCEPT ![p] = NextEmail(r)]
    /\ UNCHANGED <<siteVars, dbVars, req, tx, resp, started, fnVars,
                   email_logs, opted_out_email, sendgrid, outbox>>

\* return { sent, failed }
ProcessReturn(p) ==
    /\ pc[p] = "done"
    /\ req[p].kind = "process_emails"
    /\ pc' = [pc EXCEPT ![p] = "idle"]
    /\ req' = [req EXCEPT ![p] = NoReq]
    /\ run' = [run EXCEPT ![p] = NoRun]
    /\ UNCHANGED <<siteVars, dbVars, tx, resp, started, fnVars,
                   email_queue, email_logs, opted_out_email, sendgrid, outbox>>

processEmailQueue(p) ==
    \/ ProcessSelect(p)
    \/ ProcessSelectError(p)
    \/ \E delivered \in BOOLEAN : ProcessSend(p, delivered)
    \/ ProcessMarkSent(p)
    \/ ProcessLog(p)
    \/ ProcessDbError(p)
    \/ ProcessMarkFailed(p)
    \/ ProcessReturn(p)

\* PUT /api/customers/:id/unsubscribe: UPDATE customers SET opted_out_email = true
\* WHERE id = $1, which waits for the row lock of an open transaction and fires the
\* trigger of the table
UnsubscribeOptOut(p, id) ==
    /\ pc[p] = "idle"
    /\ FirstFree(p)
    /\ started < MaxEmailRequests
    /\ ~RowLockedByOther(p, id)
    /\ started' = started + 1
    /\ req' = [req EXCEPT ![p] = [kind |-> "unsubscribe", id |-> id]]
    /\ opted_out_email' = opted_out_email \cup {id}
    /\ customers' = [customers EXCEPT ![id] = update_updated_at_column(@, NOW)]
    /\ pc' = [pc EXCEPT ![p] = "u_cancel"]
    /\ UNCHANGED <<siteVars, captures, pipeline, imports, import_rows, tx, resp, fnVars,
                   email_queue, email_logs, sendgrid, outbox, run>>

\* UPDATE email_queue SET status = 'cancelled' WHERE customer_id = $1 AND
\* status = 'pending'; res.json({ success: true })
UnsubscribeCancel(p) ==
    /\ pc[p] = "u_cancel"
    /\ email_queue' = [k \in 1..Len(email_queue) |->
                          IF /\ email_queue[k].customer_id = req[p].id
                             /\ email_queue[k].status = "pending"
                          THEN [email_queue[k] EXCEPT !.status = "cancelled"]
                          ELSE email_queue[k]]
    /\ resp' = [resp EXCEPT ![p] = [NoResp EXCEPT !.status = 200]]
    /\ pc' = [pc EXCEPT ![p] = "u_done"]
    /\ UNCHANGED <<siteVars, dbVars, req, tx, started, fnVars,
                   email_logs, opted_out_email, sendgrid, outbox, run>>

\* One of the two statements fails (connection lost, statement timeout): catch
\* (error) { res.status(500) }.  Each is committed on its own: when the second one
\* fails the customer is opted out and the entries stay pending.
UnsubscribeDbError(p, id) ==
    /\ \/ /\ pc[p] = "idle"
          /\ FirstFree(p)
          /\ started < MaxEmailRequests
          /\ started' = started + 1
          /\ req' = [req EXCEPT ![p] = [kind |-> "unsubscribe", id |-> id]]
       \/ /\ pc[p] = "u_cancel"
          /\ req[p].id = id
          /\ UNCHANGED <<req, started>>
    /\ resp' = [resp EXCEPT ![p] = Err(500, "database error")]
    /\ pc' = [pc EXCEPT ![p] = "u_done"]
    /\ UNCHANGED <<siteVars, dbVars, tx, fnVars, emailVars>>

\* The response has been sent.
UnsubscribeFinish(p) ==
    /\ pc[p] = "u_done"
    /\ pc' = [pc EXCEPT ![p] = "idle"]
    /\ req' = [req EXCEPT ![p] = NoReq]
    /\ resp' = [resp EXCEPT ![p] = NoResp]
    /\ UNCHANGED <<siteVars, dbVars, tx, started, fnVars, emailVars>>

Unsubscribe(p) ==
    \/ \E id \in 1..Len(customers) : UnsubscribeOptOut(p, id)
    \/ UnsubscribeCancel(p)
    \/ \E id \in 1..Len(customers) : UnsubscribeDbError(p, id)
    \/ UnsubscribeFinish(p)

\* The templateId of the body: the same_day_thanks template, and an id that no
\* template has.
SegmentTemplateIds == {1, Len(SeededTemplates) + 1}

\* SELECT c.* FROM customers c WHERE c.course_id = $1 AND c.opted_out_email = false
\* AND c.email IS NOT NULL, for a segment without filters
segmentCustomers ==
    {id \in 1..Len(customers) : id \notin opted_out_email /\ customers[id].email # Null}

\* POST /api/admin/segments/:id/email: the customers of the segment, in the order in
\* which the SELECT returns them; SELECT * FROM email_templates WHERE id = $1, 404
\* without a row (no route deletes a template)
SegmentEmailSelect(p, templateId, order) ==
    /\ pc[p] = "idle"
    /\ FirstFree(p)
    /\ started < MaxEmailRequests
    /\ started' = started + 1
    /\ req' = [req EXCEPT ![p] = [kind |-> "segment_email", templateId |-> templateId]]
    /\ order \in rowOrders(segmentCustomers)
    /\ IF templateId \in 1..Len(email_templates)
       THEN /\ run' = [run EXCEPT ![p] = [NoRun EXCEPT !.i = 1, !.pending = order]]
            /\ pc' = [pc EXCEPT ![p] = "s_insert"]
            /\ resp' = resp
       ELSE /\ run' = run
            /\ pc' = [pc EXCEPT ![p] = "done"]
            /\ resp' = [resp EXCEPT ![p] = Err(404, "Template not found")]
    /\ UNCHANGED <<siteVars, dbVars, tx, fnVars,
                   email_queue, email_logs, opted_out_email, sendgrid, outbox>>

\* for (const cust of customers.rows) INSERT INTO email_queue (...) VALUES (...,
\* NOW()), queued++; after the last one res.json({ success: true, queued })
SegmentEmailInsert(p) ==
    /\ pc[p] = "s_insert"
    /\ IF run[p].i > Len(run[p].pending)
       THEN /\ pc' = [pc EXCEPT ![p] = "done"]
            /\ resp' = [resp EXCEPT ![p] = [NoResp EXCEPT !.status = 200,
                                                          !.queued = run[p].sent]]
            /\ run' = [run EXCEPT ![p] = NoRun]
            /\ email_queue' = email_queue
       ELSE /\ \E now \in DateNow :
                  email_queue' = Append(email_queue,
                                        emailRow(run[p].pending[run[p].i], TRUE, now))
            /\ run' = [run EXCEPT ![p].i = @ + 1, ![p].sent = @ + 1]
            /\ UNCHANGED <<pc, resp>>
    /\ UNCHANGED <<siteVars, dbVars, req, tx, started, fnVars,
                   email_logs, opted_out_email, sendgrid, outbox>>

\* A statement fails (connection lost, statement timeout), one of the SELECTs or an
\* INSERT of the loop: catch (error) { res.status(500) }.  Each INSERT is committed
\* on its own, so the entries queued before the failure stay.
SegmentEmailDbError(p, templateId) ==
    /\ \/ /\ pc[p] = "idle"
          /\ FirstFree(p)
          /\ started < MaxEmailRequests
          /\ started' = started + 1
          /\ req' = [req EXCEPT ![p] = [kind |-> "segment_email",
                                        templateId |-> templateId]]
       \/ /\ pc[p] = "s_insert"
          /\ run[p].i <= Len(run[p].pending)
          /\ req[p].templateId = templateId
          /\ UNCHANGED <<req, started>>
    /\ run' = [run EXCEPT ![p] = NoRun]
    /\ resp' = [resp EXCEPT ![p] = Err(500, "database error")]
    /\ pc' = [pc EXCEPT ![p] = "done"]
    /\ UNCHANGED <<siteVars, dbVars, tx, fnVars,
                   email_queue, email_logs, opted_out_email, sendgrid, outbox>>

SegmentEmail(p) ==
    \/ \E templateId \in SegmentTemplateIds, order \in rowOrders(segmentCustomers) :
          SegmentEmailSelect(p, templateId, order)
    \/ SegmentEmailInsert(p)
    \/ \E templateId \in SegmentTemplateIds : SegmentEmailDbError(p, templateId)

\* The bodies of PUT /api/admin/email-templates/:id that are tried; a field that is
\* not sent is "undefined".
TemplateUpdates ==
    {[is_active |-> "false", subject |-> "undefined"],
     [is_active |-> "true", subject |-> "undefined"],
     [is_active |-> "undefined", subject |-> "Hello"],
     [is_active |-> "undefined", subject |-> "undefined"]}

\* The ids in the path: the two follow-up templates, and an id that no template has.
TemplateIds == {2, 3, Len(SeededTemplates) + 1}

\* PUT /api/admin/email-templates/:id by an admin: 400 without a field; UPDATE
\* email_templates SET is_active = ..., subject = ..., updated_at = NOW() WHERE id =
\* $n RETURNING *; 404 without a row
TemplateUpdate(p, id, body) ==
    /\ pc[p] = "idle"
    /\ FirstFree(p)
    /\ started < MaxEmailRequests
    /\ started' = started + 1
    /\ req' = [req EXCEPT ![p] = [kind |-> "template_update", id |-> id, body |-> body]]
    /\ IF body.is_active = "undefined" /\ body.subject = "undefined"
       THEN /\ resp' = [resp EXCEPT ![p] = Err(400, "No fields to update.")]
            /\ email_templates' = email_templates
       ELSE IF id \notin 1..Len(email_templates)
       THEN /\ resp' = [resp EXCEPT ![p] = Err(404, "Template not found")]
            /\ email_templates' = email_templates
       ELSE /\ resp' = [resp EXCEPT ![p] = [NoResp EXCEPT !.status = 200]]
            /\ email_templates' =
                  [email_templates EXCEPT ![id].is_active =
                      IF body.is_active # "undefined" THEN body.is_active = "true" ELSE @]
    /\ pc' = [pc EXCEPT ![p] = "done"]
    /\ UNCHANGED <<service, adminVars, emailVars, dbVars, tx, fnVars>>

\* Time passes: the earliest scheduled_for that lies ahead is reached, an instant
\* after all those held; here that of queue entry k and of the entries scheduled for
\* the same instant.
ComesDue(k) ==
    /\ k \in 1..Len(email_queue)
    /\ ~email_queue[k].due
    /\ \A ahead \in Ahead : email_queue[k].scheduled_for <= ahead
    /\ email_queue' =
          [j \in 1..Len(email_queue) |->
              IF /\ ~email_queue[j].due
                 /\ email_queue[j].scheduled_for = email_queue[k].scheduled_for
              THEN [email_queue[j] EXCEPT !.due = TRUE,
                                          !.scheduled_for = Latest(DateNow)]
              ELSE email_queue[j]]
    /\ UNCHANGED <<siteVars, dbVars, pc, req, tx, resp, started, fnVars,
                   email_logs, opted_out_email, sendgrid, outbox, run>>

\* Time passes while an INSERT of queueEmail is under way: the scheduledFor that
\* handler p computed is reached before its entry is in the table.
ComesDueUnderWay(p) ==
    /\ pc[p] = "q_insert"
    /\ ~tx[p].due
    /\ \A ahead \in Ahead : tx[p].scheduledFor <= ahead
    /\ tx' = [tx EXCEPT ![p].due = TRUE, ![p].scheduledFor = Latest(DateNow)]
    /\ UNCHANGED <<siteVars, emailVars, dbVars, pc, req, resp, started, fnVars>>

----------------------------------------------------------------------------
(* normalizePhone as a function of the submitted string                    *)

MaxPhoneLen == 11

\* The characters of the submitted phone strings: two digits and a separator.
PhoneChars == {"1", "5", "-"}

\* An absent phone, and every string of up to MaxPhoneLen characters.
PhoneInputs ==
    {Null} \cup UNION {[1..n -> PhoneChars] : n \in 0..MaxPhoneLen}

NoPhoneResult == [calls |-> 0, value |-> Null, again |-> Null]

\* normalizePhone(phone)
PhoneApply ==
    /\ fnResult.calls = 0
    /\ fnResult' = [fnResult EXCEPT !.calls = 1, !.value = normalizePhone(fnArg)]
    /\ UNCHANGED <<siteVars, emailVars, dbVars, pc, req, tx, resp, started, fnArg>>

\* normalizePhone applied to its own result
PhoneReapply ==
    /\ fnResult.calls = 1
    /\ fnResult' = [fnResult EXCEPT !.calls = 2, !.again = normalizePhone(fnResult.value)]
    /\ UNCHANGED <<siteVars, emailVars, dbVars, pc, req, tx, resp, started, fnArg>>

----------------------------------------------------------------------------
(* Specifications                                                          *)

InitDb(s, procs) ==
    /\ service = s
    /\ customers = <<>>
    /\ captures = <<>>
    /\ pipeline = <<>>
    /\ imports = <<>>
    /\ import_rows = <<>>
    /\ pc = [p \in procs |-> "idle"]
    /\ req = [p \in procs |-> NoReq]
    /\ tx = [p \in procs |-> NoTx]
    /\ resp = [p \in procs |-> NoResp]
    /\ started = 0
    /\ fnArg = Null
    /\ fnResult = NoResult
    /\ NoEmail(procs)

\* src/backend/server.js: captures and imports
Init == InitDb("backend", Workers)

Next == \E p \in Workers : CaptureBackend(p) \/ Import(p) \/ Finish(p)

Spec == Init /\ [][Next]_vars

\* src/unnamed/part_000: captures and imports
InitAntiAbuse == InitDb("part000", Workers)

NextAntiAbuse == \E p \in Workers : CaptureAntiAbuse(p) \/ Import(p) \/ Finish(p)

SpecAntiAbuse == InitAntiAbuse /\ [][NextAntiAbuse]_vars

\* src/backend/server.js with the prospects list read alongside
NextProspects ==
    \E p \in Workers :
        \/ CaptureBackend(p)
        \/ Import(p)
        \/ Finish(p)
        \/ \E limit \in Limits : GetProspects(p, limit)

SpecProspects == Init /\ [][NextProspects]_vars

\* The customer that a capture of `form` at instant `now` creates on a course where
\* it matches nobody, with its score.
Captured(form, now) ==
    scoreRow(captureCustomerRow(form, normalizeEmail(form.email),
                                normalizePhone(form.phone), now), now)

\* The customer that an import of FileGeneric at the first instant creates.
ImportedGeneric ==
    LET mapped == mapFields("generic", FileGeneric.records[1])
    IN  importCustomerRow(ImportSource["generic"], mapped,
                          normalizeEmail(mapped.email), normalizePhone(mapped.phone),
                          sourceId(FileGeneric.records[1]), 1)

\* src/unnamed/part_000 after an import of FileGeneric: captures and the staff's
\* pipeline routes
InitPipeline ==
    /\ service = "part000"
    /\ customers = <<ImportedGeneric>>
    /\ captures = <<>>
    /\ pipeline = <<>>
    /\ imports = <<[importRecord("generic") EXCEPT !.status = "completed",
                        !.total_rows = 1, !.processed_rows = 1, !.new_customers = 1]>>
    /\ import_rows = <<[importRowRecord(1, 1, "created", "null", "")
                            EXCEPT !.import_id = 1]>>
    /\ pc = [p \in Workers |-> "idle"]
    /\ req = [p \in Workers |-> NoReq]
    /\ tx = [p \in Workers |-> NoTx]
    /\ resp = [p \in Workers |-> NoResp]
    /\ started = 0
    /\ fnArg = Null
    /\ fnResult = NoResult
    /\ NoEmail(Workers)

NextPipeline == \E p \in Workers : CaptureAntiAbuse(p) \/ AdminPipeline(p) \/ Finish(p)

SpecPipeline == InitPipeline /\ [][NextPipeline]_vars

\* src/unnamed/part_000 after the captures of FormAgain and FormVisitor, each of
\* which has queued its follow-up email (either of them computed its scheduledFor
\* first, or both did in the same millisecond): the email processor and unsubscribe
InitEmail ==
    /\ service = "part000"
    /\ customers = <<Captured(FormAgain, 1), Captured(FormVisitor, 2)>>
    /\ captures = <<captureRow(1, FormAgain.locationId,
                               generateRewardCode(<<"A", "B", "C", "2", "3", "4">>),
                               resolveReward(FormAgain.chosenReward)),
                    captureRow(2, FormVisitor.locationId,
                               generateRewardCode(<<"X", "X", "X", "9", "9", "9">>),
                               resolveReward(FormVisitor.chosenReward))>>
    /\ pipeline = <<>>
    /\ imports = <<>>
    /\ import_rows = <<>>
    /\ pc = [p \in EmailProcs |-> "idle"]
    /\ req = [p \in EmailProcs |-> NoReq]
    /\ tx = [p \in EmailProcs |-> NoTx]
    /\ resp = [p \in EmailProcs |-> NoResp]
    /\ started = 0
    /\ fnArg = Null
    /\ fnResult = NoResult
    /\ \E first, second \in 1..2 :
          /\ 1 \in {first, second}
          /\ email_queue = <<emailRow(1, FALSE, first), emailRow(2, FALSE, second)>>
    /\ email_logs = <<>>
    /\ opted_out_email = {}
    /\ sendgrid \in BOOLEAN
    /\ outbox = <<>>
    /\ run = [p \in EmailProcs |-> NoRun]
    /\ email_templates = SeededTemplates
    /\ SeededTeam(NoEnv)

NextEmailQueue ==
    \/ \E p \in EmailProcs : processEmailQueue(p) \/ Unsubscribe(p)
    \/ \E k \in 1..Len(email_queue) : ComesDue(k)

SpecEmail == InitEmail /\ [][NextEmailQueue]_vars

\* src/unnamed/part_000 after an import of FileGeneric and the capture of
\* FormVisitor, which has queued its follow-up email: captures with their
\* follow-ups, segment emails, the email processor and unsubscribe
InitOptOut ==
    /\ service = "part000"
    /\ customers = <<ImportedGeneric, Captured(FormVisitor, 2)>>
    /\ captures = <<captureRow(2, FormVisitor.locationId,
                               generateRewardCode(<<"X", "X", "X", "9", "9", "9">>),
                               resolveReward(FormVisitor.chosenReward))>>
    /\ pipeline = <<>>
    /\ imports = <<[importRecord("generic") EXCEPT !.status = "completed",
                        !.total_rows = 1, !.processed_rows = 1, !.new_customers = 1]>>
    /\ import_rows = <<[importRowRecord(1, 1, "created", "null", "")
                            EXCEPT !.import_id = 1]>>
    /\ pc = [p \in EmailProcs |-> "idle"]
    /\ req = [p \in EmailProcs |-> NoReq]
    /\ tx = [p \in EmailProcs |-> NoTx]
    /\ resp = [p \in EmailProcs |-> NoResp]
    /\ started = 0
    /\ fnArg = Null
    /\ fnResult = NoResult
    /\ email_queue = <<emailRow(2, FALSE, 1)>>
    /\ email_logs = <<>>
    /\ opted_out_email = {}
    /\ sendgrid = TRUE
    /\ outbox = <<>>
    /\ run = [p \in EmailProcs |-> NoRun]
    /\ email_templates = SeededTemplates
    /\ SeededTeam(NoEnv)

\* At most MaxOptOutRequests requests and calls are accepted.
NextOptOut ==
    /\ \/ NextEmailQueue
       \/ \E p \in EmailProcs :
             \/ CaptureAntiAbuse(p)
             \/ Finish(p)
             \/ SegmentEmail(p)
             \/ \E id \in TemplateIds, body \in TemplateUpdates :
                   TemplateUpdate(p, id, body)
             \/ ComesDueUnderWay(p)
    /\ started' <= MaxOptOutRequests

SpecOptOut == InitOptOut /\ [][NextOptOut]_vars

\* normalizePhone on one input
InitPhone ==
    /\ service = "backend"
    /\ customers = <<>>
    /\ captures = <<>>
    /\ pipeline = <<>>
    /\ imports = <<>>
    /\ import_rows = <<>>
    /\ pc = [p \in Workers |-> "idle"]
    /\ req = [p \in Workers |-> NoReq]
    /\ tx = [p \in Workers |-> NoTx]
    /\ resp = [p \in Workers |-> NoResp]
    /\ started = 0
    /\ fnArg \in PhoneInputs
    /\ fnResult = NoPhoneResult
    /\ NoEmail(Workers)

NextPhone == PhoneApply \/ PhoneReapply

SpecPhone == InitPhone /\ [][NextPhone]_vars

\* A first name with a comma and a quote in it.
FormQuoted == [FormVisitor EXCEPT !.firstName = <<"A", ",", "\"", "l">>]

\* A first name of two lines.
FormTwoLines == [FormAgain EXCEPT !.firstName = <<"A", "\n", "l">>]

\* The submissions that have filled the course before the export.
ExportTables ==
    {<<FormAgain>>, <<FormAgain, FormVisitor>>, <<FormQuoted>>, <<FormTwoLines>>,
     <<FormAgain, FormNoContact>>, <<FormQuoted, FormAgain>>}

\* src/backend/server.js after the captures of one of ExportTables: export and import
InitExport ==
    /\ service = "backend"
    /\ \E forms \in ExportTables :
          /\ customers = [k \in 1..Len(forms) |-> Captured(forms[k], k)]
          /\ captures = [k \in 1..Len(forms) |->
                            captureRow(k, forms[k].locationId,
                                       generateRewardCode(
                                           IF k = 1 THEN <<"A", "B", "C", "2", "3", "4">>
                                           ELSE <<"X", "X", "X", "9", "9", "9">>),
                                       "free_beer")]
    /\ pipeline = <<>>
    /\ imports = <<>>
    /\ import_rows = <<>>
    /\ pc = [p \in Workers |-> "idle"]
    /\ req = [p \in Workers |-> NoReq]
    /\ tx = [p \in Workers |-> NoTx]
    /\ resp = [p \in Workers |-> NoResp]
    /\ started = 0
    /\ fnArg = Null
    /\ fnResult = NoResult
    /\ NoEmail(Workers)

NextExport ==
    \E p \in Workers :
        \/ \E filter \in ExportFilters : ExportCustomers(p, filter)
        \/ \E q \in Workers : ImportUpload(p, q)
        \/ Import(p)
        \/ Finish(p)

SpecExport == InitExport /\ [][NextExport]_vars

\* src/unnamed/part_000 under one of the environments: team management
InitAdminUsers ==
    /\ service = "part000"
    /\ customers = <<>>
    /\ captures = <<>>
    /\ pipeline = <<>>
    /\ imports = <<>>
    /\ import_rows = <<>>
    /\ pc = [p \in Workers |-> "idle"]
    /\ req = [p \in Workers |-> NoReq]
    /\ tx = [p \in Workers |-> NoTx]
    /\ resp = [p \in Workers |-> NoResp]
    /\ started = 0
    /\ fnArg = Null
    /\ fnResult = NoResult
    /\ email_queue = <<>>
    /\ email_logs = <<>>
    /\ opted_out_email = {}
    /\ sendgrid = FALSE
    /\ outbox = <<>>
    /\ run = [p \in Workers |-> NoRun]
    /\ email_templates = SeededTemplates
    /\ \E e \in Envs : SeededTeam(e)

NextAdminUsers == \E p \in Workers : AdminUsers(p) \/ Finish(p)

SpecAdminUsers == InitAdminUsers /\ [][NextAdminUsers]_vars

\* either server
InitServices == Init \/ InitAntiAbuse

NextServices ==
    \/ service = "backend" /\ Next
    \/ service = "part000" /\ NextAntiAbuse

SpecServices == InitServices /\ [][NextServices]_vars

\* either server, with redemptions at the bar alongside the captures and imports
NextVisits ==
    \/ NextServices
    \/ \E p \in Workers : (pc[p] = "idle" => started < MaxRequests) /\ Redeem(p)

SpecVisits == InitServices /\ [][NextVisits]_vars

\* Redemptions against a captures table left by earlier submissions of
\* FormNoContact, each of which made one customer and one capture.
InitRedeem ==
    /\ service \in {"backend", "part000"}
    /\ \E n \in 1..MaxCaptureRows :
         \E draws \in [1..n -> CodeDraws] :
            /\ customers = [k \in 1..n |-> Captured(FormNoContact, k)]
            /\ captures = [k \in 1..n |->
                              captureRow(k, "null", generateRewardCode(draws[k]),
                                         IF service = "backend" THEN "free_beer"
                                         ELSE resolveReward(FormNoContact.chosenReward))]
    /\ pipeline = <<>>
    /\ imports = <<>>
    /\ import_rows = <<>>
    /\ pc = [p \in Redeemers |-> "idle"]
    /\ req = [p \in Redeemers |-> NoReq]
    /\ tx = [p \in Redeemers |-> NoTx]
    /\ resp = [p \in Redeemers |-> NoResp]
    /\ started = 0
    /\ fnArg = Null
    /\ fnResult = NoResult
    /\ NoEmail(Redeemers)

NextRedeem == \E p \in Redeemers : Redeem(p)

SpecRedeem == InitRedeem /\ [][NextRedeem]_vars

InitScore ==
    /\ service = "backend"
    /\ customers = <<>>
    /\ captures = <<>>
    /\ pipeline = <<>>
    /\ imports = <<>>
    /\ import_rows = <<>>
    /\ pc = [p \in Workers |-> "idle"]
    /\ req = [p \in Workers |-> NoReq]
    /\ tx = [p \in Workers |-> NoTx]
    /\ resp = [p \in Workers |-> NoResp]
    /\ started = 0
    /\ fnArg \in ScoreInputs
    /\ fnResult = NoResult
    /\ NoEmail(Workers)

NextScore == ScoreApply

SpecScore == InitScore /\ [][NextScore]_vars

----------------------------------------------------------------------------
(* Claims                                                                  *)

Done(p) == pc[p] = "done"

\* The finished requests that were told they redeemed the code.
RedeemWinners(code) ==
    {p \in Redeemers : Done(p) /\ resp[p].status = 200 /\ toUpperCase(req[p].code) = code}

\* The requests whose UPDATE has redeemed row k and that await the second statement
\* of part_000 before they are answered.
RedeemAnswerDue(k) == {p \in Redeemers : pc[p] = "r_abtest" /\ k \in tx[p].found}

\* The finished requests for the code that were answered 500 because a statement
\* failed at the database.
RedeemFailed(code) ==
    {p \in Redeemers : Done(p) /\ resp[p].status = 500 /\ toUpperCase(req[p].code) = code}

\* What the finished redemption requests were told, against the captures table.
RedeemOutcome ==
    /\ \A k \in 1..Len(captures) :
          LET winners == RedeemWinners(captures[k].reward_code)
          IN  /\ Cardinality(winners \cup RedeemAnswerDue(k)) <= 1
              /\ winners \cup RedeemAnswerDue(k) # {} => captures[k].reward_redeemed
              /\ captures[k].reward_redeemed =>
                     \/ winners \cup RedeemAnswerDue(k) # {}
                     \/ RedeemFailed(captures[k].reward_code) # {}
              /\ \A p \in winners \cup RedeemAnswerDue(k) :
                     captures[k].reward_redeemed_by = req[p].redeemedBy
    /\ \A p \in Redeemers :
          Done(p) /\ resp[p].status \notin {200, 500} =>
              /\ resp[p].status = 404
              /\ resp[p].error = "Code not found or already redeemed"
              /\ \A k \in 1..Len(captures) :
                    captures[k].reward_code = toUpperCase(req[p].code)
                        => captures[k].reward_redeemed

\* A step leaves every redeemed row as it is.
RedeemedRowsFrozen ==
    \A k \in 1..Len(captures) :
        captures[k].reward_redeemed => captures'[k] = captures[k]

\* C1: redemption is exactly-once.  For every captures row, at most one request for
\* its code redeems it: it is answered with success (in part_000 after its second
\* statement) and the row carries its redeemedBy; unless a statement of a request
\* for the code failed at the database (answer 500), the row is redeemed exactly
\* when there is such a request.  Every other finished request got 404 'Code not
\* found or already redeemed', and got it for an issued code only once the code was
\* redeemed.  A redeemed row never changes again.
C1_RedeemExactlyOnce == []RedeemOutcome /\ [][RedeemedRowsFrozen]_vars

\* C1 witness: three requests for the same issued code have finished, one with
\* success and two with the failure.
C1_Witness ==
    \E k \in 1..Len(captures) :
        LET same == {p \in Redeemers :
                        Done(p) /\ toUpperCase(req[p].code) = captures[k].reward_code}
        IN  /\ Cardinality(same) = 3
            /\ Cardinality({p \in same : resp[p].status = 200}) = 1
            /\ Cardinality({p \in same : resp[p].status = 404}) = 2
            /\ \E p, q \in same : req[p].redeemedBy # req[q].redeemedBy

\* The email a capture row belongs to: that of its customer.
CaptureEmail(k) == customers[captures[k].customer_id].email

\* C2: under the anti-abuse service there is at most one capture row per
\* (course, normalized email), whatever the interleaving of the submissions.
C2_OneCapturePerEmail ==
    \A i, j \in 1..Len(captures) :
        i # j /\ Truthy(CaptureEmail(i)) => CaptureEmail(i) # CaptureEmail(j)

\* C3: at most one customer per (course_id, email) and per (course_id, phone), for
\* every email and phone that is not NULL.
C3_UniqueIdentityKeys ==
    \A i, j \in 1..Len(customers) :
        i # j =>
            /\ customers[i].email # Null => customers[i].email # customers[j].email
            /\ customers[i].phone # Null => customers[i].phone # customers[j].phone

\* C3 witness: two customers are stored and a request that would have duplicated a
\* key of one of them has been refused.
C3_Witness ==
    /\ Len(customers) >= 2
    /\ \A id \in 1..Len(customers) :
          customers[id].email # Null /\ customers[id].phone # Null
    /\ \E p \in Workers :
          /\ Done(p)
          /\ req[p].kind = "capture"
          /\ resp[p].error = "duplicate key"

\* C4: no two capture rows carry the same reward_code.
C4_RewardCodesUnique ==
    \A i, j \in 1..Len(captures) :
        i # j => captures[i].reward_code # captures[j].reward_code

\* The step in which worker p commits its transaction.
IsCommitStep(p) ==
    /\ pc[p] \in {"c_commit", "i_finish"}
    /\ pc'[p] \in {"done", "c_followup"}
    /\ resp'[p].status = 200

\* What the commit of a capture makes visible, all in one step.
CaptureCommitEffect(p) ==
    LET id == Resolve(Len(customers), tx[p].customerId)
    IN  /\ Len(captures') = Len(captures) + 1
        /\ captures'[Len(captures')].customer_id = id
        /\ id \in 1..Len(customers')
        /\ id \in 1..Len(customers) => customers'[id] # customers[id]
        /\ customers'[id].membership_score = calculateMembershipScore(customers'[id])
        /\ customers'[id].is_membership_prospect =
              prospectFlag(customers'[id].membership_score, customers'[id].is_local)
        /\ service = "part000" /\ customers'[id].is_membership_prospect
              => \E k \in 1..Len(pipeline') : pipeline'[k].customer_id = id

\* Tables change in commit steps only; a failing submission changes nothing.
CaptureAtomicStep ==
    /\ dbVars' # dbVars => \E p \in Workers : IsCommitStep(p)
    /\ \A p \in Workers :
          /\ pc[p] = "c_commit" /\ IsCommitStep(p) => CaptureCommitEffect(p)
          /\ pc[p] \in InTx /\ pc'[p] = "done" /\ resp'[p].status # 200
                => dbVars' = dbVars

\* Every committed capture row references an existing customer.
CapturesReferenceCustomers ==
    \A k \in 1..Len(captures) : captures[k].customer_id \in 1..Len(customers)

\* C5: a capture submission is atomic.  The tables change only in the step that
\* commits a transaction; the commit of a capture adds exactly one capture row, which
\* references a customer row that the same commit created or changed and that
\* carries the score and prospect flag computed from it, together with the pipeline
\* entry of a prospect (part_000); a step in which a submission fails before its
\* commit leaves customers, captures and prospect_pipeline as they were; and every
\* committed capture row references an existing customer.
C5_CaptureAtomic == []CapturesReferenceCustomers /\ [][CaptureAtomicStep]_vars

\* C5 witness: under part_000 a submission has failed on a constraint violation
\* after another had committed a prospect with its capture and pipeline entry.
C5_Witness ==
    /\ service = "part000"
    /\ Len(captures) >= 1
    /\ pipeline # <<>>
    /\ \E p \in Workers :
          /\ Done(p)
          /\ req[p].kind = "capture"
          /\ resp[p].status = 500
          /\ resp[p].error = "duplicate key"

\* Worker p is past the match of a backend submission and matched by email.
EmailMatched(p) ==
    /\ req[p].kind = "capture"
    /\ pc[p] \in {"c_upsert", "c_score", "c_capture", "c_commit"}
    /\ tx[p].customerId \in 1..Len(customers)
    /\ Truthy(tx[p].email)
    /\ customers[tx[p].customerId].email = tx[p].email

\* The step that ends an email-matched submission.
C6_RepeatVisitStep ==
    \A p \in Workers :
        EmailMatched(p) /\ pc'[p] = "done" /\ resp'[p].error # "database error" =>
            LET id == tx[p].customerId
            IN  /\ resp'[p].status = 200
                /\ resp'[p].customerId = id
                /\ ~resp'[p].isNewCustomer
                /\ Len(customers') = Len(customers)
                /\ customers'[id].visit_count = customers[id].visit_count + 1

\* C6: in the repeat-visitor service a submission whose normalized email is that of an
\* existing customer is answered with success, that customer's id and isNewCustomer =
\* false, creates no customer and raises that customer's visit_count by exactly 1
\* (submissions that the database itself failed are left aside).
C6_RepeatVisitCounts == [][C6_RepeatVisitStep]_vars

\* The point table of README.md, written out independently of the code.
TableScore(c) ==
    (IF c.is_local = "true" THEN 30 ELSE 0)
    + (CASE c.play_frequency = "weekly" -> 25
         [] c.play_frequency = "monthly" -> 15
         [] c.play_frequency = "rarely" -> 5
         [] OTHER -> 0)
    + (CASE c.visit_count >= 5 -> 20
         [] c.visit_count \in {3, 4} -> 15
         [] c.visit_count = 2 -> 10
         [] OTHER -> 0)
    + (IF c.member_elsewhere = "false" THEN 15 ELSE 0)
    + (IF Truthy(c.email) /\ Truthy(c.phone) THEN 5 ELSE 0)
    + (IF Truthy(c.zip) THEN 5 ELSE 0)

\* The profile that earns every component its maximum.
AllMaximal(c) ==
    /\ c.is_local = "true" /\ c.play_frequency = "weekly" /\ c.visit_count >= 5
    /\ c.member_elsewhere = "false" /\ Truthy(c.email) /\ Truthy(c.phone)
    /\ Truthy(c.zip)

\* C7: calculateMembershipScore is the additive point table, an integer in 0..100,
\* and 100 on the all-maximal profile.
C7_ScoreIsPointTable ==
    fnResult.done =>
        /\ fnResult.value = TableScore(fnArg)
        /\ fnResult.value \in 0..100
        /\ AllMaximal(fnArg) => fnResult.value = 100

\* C7 witness: the all-maximal profile has been scored, and scored 100.
C7_Witness == fnResult.done /\ AllMaximal(fnArg) /\ fnResult.value = 100

\* C8: the stored prospect flag is true exactly when the stored membership_score is
\* at least 60 and is_local is true.
C8_ProspectFlagStrict ==
    \A id \in 1..Len(customers) :
        customers[id].is_membership_prospect
            <=> (customers[id].membership_score >= 60 /\ customers[id].is_local = "true")

\* C8 witness: a customer who is not local has reached a score of 60 and is not
\* flagged.
C8_Witness ==
    \E id \in 1..Len(customers) :
        /\ customers[id].membership_score >= 60
        /\ customers[id].is_local # "true"
        /\ ~customers[id].is_membership_prospect

\* C9: in every committed state the stored membership_score of every customer is
\* calculateMembershipScore of the customer's stored attributes.
C9_ScoreIsCurrent ==
    \A id \in 1..Len(customers) :
        customers[id].membership_score = calculateMembershipScore(customers[id])

\* C10: every customer has visit_count >= 1.
C10_VisitCountAtLeastOne ==
    \A id \in 1..Len(customers) : customers[id].visit_count >= 1

\* The text columns and the tri-state / enum columns of the customer profile.
ContactColumns == {"first_name", "last_name", "email", "phone", "zip"}
ProfileColumns == {"booking_source", "is_local", "play_frequency", "member_elsewhere"}

\* A stored value is known when it is not NULL.
Known(row, col) == row[col] # (IF col \in ContactColumns THEN Null ELSE "null")

\* Worker p commits a capture that matched the committed customer tx[p].customerId.
MatchedCaptureCommit(p) ==
    /\ pc[p] = "c_commit"
    /\ IsCommitStep(p)
    /\ tx[p].customerId \in 1..Len(customers)

\* The step that commits a matched capture keeps every known profile attribute.
C11_MergeStep ==
    \A p \in Workers :
        MatchedCaptureCommit(p) =>
            \A col \in ContactColumns \cup ProfileColumns :
                Known(customers[tx[p].customerId], col)
                    => customers'[tx[p].customerId][col] = customers[tx[p].customerId][col]

\* C11: on a match in the capture form path the profile is merged fill-blank-only:
\* a value already known on the customer is unchanged by the submission, only blank
\* (null) attributes take the submitted value.
C11_CaptureMergeFillsBlanks == [][C11_MergeStep]_vars

\* Worker p commits an import batch.
ImportCommit(p) == pc[p] = "i_finish" /\ IsCommitStep(p)

\* The step that commits an import keeps, on every customer that existed, the
\* known contact values and all of the other columns but those of `rewritten`.
ImportKeeps(rewritten) ==
    \A p \in Workers :
        ImportCommit(p) =>
            /\ opted_out_email' = opted_out_email
            /\ \A id \in 1..Len(customers) :
                  /\ \A col \in ContactColumns :
                        Known(customers[id], col) => customers'[id][col] = customers[id][col]
                  /\ \A col \in DOMAIN customers[id] \ (ContactColumns \cup rewritten) :
                        customers'[id][col] = customers[id][col]

\* C12 as stated: on an import match the merge is fill-blank-only: a non-null
\* first_name, last_name, email, phone or zip already stored is never changed by an
\* import row, and every other customer column is left unchanged.
C12_ImportKeepsEveryOtherColumn == [][ImportKeeps({})]_vars

\* C12 amended: on an import match the merge is fill-blank-only: a non-null
\* first_name, last_name, email, phone or zip already stored is never changed by an
\* import row, and every other customer column except updated_at (visit_count,
\* last_visit_at, membership_score, is_membership_prospect, source, the profile
\* flags and the rest) is left unchanged.
C12_ImportMergeFillsBlanks == [][ImportKeeps({"updated_at"})]_vars

\* C12 witness: a committed import has matched a customer created by a capture; the
\* row's different phone did not replace the stored one, its zip filled the blank,
\* and the customer's updated_at is later than the visit, which last_visit_at still
\* shows.
C12_Witness ==
    \E p \in Workers, k \in 1..Len(import_rows) :
        /\ Done(p) /\ req[p].kind = "import" /\ resp[p].status = 200
        /\ req[p].records = FileSkip.records
        /\ import_rows[k].action = "matched"
        /\ import_rows[k].import_id = Len(imports)
        /\ LET c == customers[import_rows[k].customer_id]
           IN  /\ c.source = "capture" /\ c.phone = Phone2 /\ c.zip = Zip1
               /\ c.last_visit_at = c.created_at
               /\ c.updated_at > c.last_visit_at

\* The statement worker p is about to send for its import row violates one of the
\* unique constraints of customers.
RowRaisesUnique(p) ==
    /\ pc[p] = "i_write"
    /\ IF tx[p].customerId # 0
       THEN UniqueViolation(p, tx[p].customerId,
                importMergeRow(ViewRow(p, tx[p].customerId), tx[p].mapped,
                               tx[p].email, tx[p].phone, tx[p].now))
       ELSE UniqueViolation(p, 0,
                importCustomerRow(ImportSource[req[p].source], tx[p].mapped,
                                  tx[p].email, tx[p].phone,
                                  sourceId(req[p].records[tx[p].i]), tx[p].now))

\* After such a row the batch goes on: the row is audited as an error and the loop
\* moves to the next row, with the writes of the earlier rows still pending.
C13_RowErrorStep ==
    \A p \in Workers :
        RowRaisesUnique(p) /\ pc'[p] # pc[p] =>
            /\ pc'[p] \in {"i_row", "i_finish"}
            /\ tx'[p].i = tx[p].i + 1
            /\ Len(tx'[p].irows) = Len(tx[p].irows) + 1
            /\ tx'[p].irows[Len(tx'[p].irows)].action = "error"
            /\ tx'[p].irows[Len(tx'[p].irows)].row_number = tx[p].i
            /\ tx'[p].ins = tx[p].ins
            /\ tx'[p].upd = tx[p].upd

\* C13: a per-row exception during an import (such as a uniqueness violation of the
\* row's insert or merge) does not abort the batch: the row is recorded with action
\* 'error', later rows are still processed and the other rows' outcomes are kept.
C13_RowErrorIsolated == [][C13_RowErrorStep]_vars

\* The audit entries of import batch b, and those with a given action.
BatchRows(b) == {k \in 1..Len(import_rows) : import_rows[k].import_id = b}

BatchCount(b, action) ==
    Cardinality({k \in BatchRows(b) : import_rows[k].action = action})

\* The audit entries of a completed batch number its rows 1..total_rows once each,
\* and its counters are the numbers of entries of each outcome.
BatchAudited ==
    \A b \in 1..Len(imports) :
        imports[b].status = "completed" =>
            /\ Cardinality(BatchRows(b)) = imports[b].total_rows
            /\ {import_rows[k].row_number : k \in BatchRows(b)} = 1..imports[b].total_rows
            /\ \A k \in BatchRows(b) :
                  import_rows[k].action \in {"created", "matched", "skipped", "error"}
            /\ imports[b].new_customers = BatchCount(b, "created")
            /\ imports[b].matched_customers = BatchCount(b, "matched")
            /\ imports[b].skipped_rows = BatchCount(b, "skipped")
            /\ imports[b].total_rows =
                  imports[b].new_customers + imports[b].matched_customers
                  + imports[b].skipped_rows + BatchCount(b, "error")
            /\ imports[b].processed_rows =
                  imports[b].new_customers + imports[b].matched_customers

\* The batch that a step commits counts the rows of the uploaded file.
BatchCountsInput ==
    \A p \in Workers :
        ImportCommit(p) =>
            /\ Len(imports') = Len(imports) + 1
            /\ imports'[Len(imports')].status = "completed"
            /\ imports'[Len(imports')].total_rows = Len(req[p].records)

\* C14: every completed import batch has exactly one import_rows entry per input
\* row, with action created, matched, skipped or error, and its counters agree with
\* them: total_rows = new_customers + matched_customers + skipped_rows + error rows
\* and processed_rows = new_customers + matched_customers.
C14_ImportAudit == []BatchAudited /\ [][BatchCountsInput]_vars

\* C14 witness: a completed batch of two rows, one skipped and one not.
C14_Witness ==
    \E b \in 1..Len(imports) :
        /\ imports[b].status = "completed"
        /\ imports[b].total_rows = 2
        /\ imports[b].skipped_rows = 1
        /\ imports[b].processed_rows = 1

\* The email and phone of the row worker p is at, as the import reads them.
RowMapped(p) == mapFields(req[p].source, req[p].records[tx[p].i])

RowEmail(p) ==
    IF RowMapped(p).email = Null THEN Null ELSE trim(toLowerCase(RowMapped(p).email))

RowPhone(p) == normalizePhone(RowMapped(p).phone)

\* The customers, as worker p sees them, that have the row's email.
RowEmailHits(p) ==
    IF Truthy(RowEmail(p))
    THEN {id \in ViewIds(p) : ViewRow(p, id).email = RowEmail(p)}
    ELSE {}

\* One step of the row loop of an import, outcome by outcome.
C15_RowStep ==
    \A p \in Workers :
        /\ pc[p] = "i_row" /\ pc'[p] # "done" /\ tx'[p] # tx[p] =>
              IF ~Truthy(RowEmail(p)) /\ ~Truthy(RowPhone(p))
              THEN /\ Len(tx'[p].irows) = Len(tx[p].irows) + 1
                   /\ tx'[p].irows[Len(tx'[p].irows)].action = "skipped"
                   /\ tx'[p].irows[Len(tx'[p].irows)].row_number = tx[p].i
                   /\ tx'[p].ins = tx[p].ins
                   /\ tx'[p].upd = tx[p].upd
                   /\ tx'[p].i = tx[p].i + 1
                   /\ pc'[p] = IF tx[p].i < Len(req[p].records) THEN "i_row" ELSE "i_finish"
              ELSE /\ pc'[p] = "i_phone"
                   /\ RowEmailHits(p) # {} =>
                         tx'[p].matchType = "email" /\ tx'[p].customerId \in RowEmailHits(p)
                   /\ RowEmailHits(p) = {} => tx'[p].customerId = 0
        /\ pc[p] = "i_phone" /\ pc'[p] = "i_write" =>
              /\ tx[p].matchType = "email" =>
                    tx'[p].matchType = "email" /\ tx'[p].customerId = tx[p].customerId
              /\ tx'[p].matchType = "phone" =>
                    /\ tx[p].customerId = 0
                    /\ ViewRow(p, tx'[p].customerId).phone = RowPhone(p)
        /\ pc[p] = "i_write" /\ pc'[p] = "i_audit" /\ tx[p].matchType = "email" =>
              /\ tx'[p].action = "matched"
              /\ tx'[p].ins = tx[p].ins
        /\ pc[p] = "i_audit" /\ pc'[p] \in {"i_row", "i_finish"} =>
              /\ Len(tx'[p].irows) = Len(tx[p].irows) + 1
              /\ tx'[p].irows[Len(tx'[p].irows)].action = tx[p].action
              /\ tx'[p].irows[Len(tx'[p].irows)].match_type = tx[p].matchType
              /\ tx'[p].irows[Len(tx'[p].irows)].row_number = tx[p].i
              /\ pc'[p] = IF tx[p].i < Len(req[p].records) THEN "i_row" ELSE "i_finish"
        /\ ImportCommit(p) =>
              Len(customers') = Len(customers)
                  + Cardinality({k \in 1..Len(tx[p].irows) :
                                    tx[p].irows[k].action = "created"})

\* C15: an import row whose normalized email is that of an existing customer has
\* outcome 'matched' with match_type 'email' and adds no customer; email is tried
\* before phone and phone only when the email finds nothing; a row with neither a
\* usable email nor a usable phone is 'skipped', writes no customer, and the rows
\* after it are still processed.
C15_ImportMatching == [][C15_RowStep]_vars

\* C15 witness: a committed batch skipped its first row and matched its second by
\* email, and an earlier batch matched a row by phone.
C15_Witness ==
    \E k1, k2, k3 \in 1..Len(import_rows) :
        /\ import_rows[k1].import_id = import_rows[k2].import_id
        /\ import_rows[k1].row_number = 1 /\ import_rows[k1].action = "skipped"
        /\ import_rows[k2].row_number = 2 /\ import_rows[k2].action = "matched"
        /\ import_rows[k2].match_type = "email"
        /\ import_rows[k3].action = "matched" /\ import_rows[k3].match_type = "phone"

\* The submission lacks a required contact field: no email, or no valid phone.
LacksContact(form) ==
    \/ form.email = Null
    \/ ~Truthy(trim(toLowerCase(form.email)))
    \/ normalizePhone(form.phone) = Null

\* A step of a handler that serves such a submission writes nothing and does not
\* answer with success.
C16_RejectStep ==
    \A p \in Workers :
        /\ req[p].kind = "capture"
        /\ LacksContact(req[p].form)
        /\ pc'[p] # pc[p]
        => /\ customers' = customers
           /\ captures' = captures
           /\ pc'[p] = "done" => resp'[p].status # 200

\* C16: a capture submission that lacks a required contact field (no email, or no
\* valid phone) is rejected before any write: it is answered with an error and no
\* customer or capture row is created or changed.
C16_ContactRequired == [][C16_RejectStep]_vars

\* The rewards a capture may carry under the stated precedence: a variant of the
\* location's active A/B test, else the customer's choice when it is a catalog kind,
\* else the location's configured reward, else free_beer.
ExpectedRewards(form) ==
    LET tests == {t \in ab_tests : t.location_id = form.locationId /\ t.is_active}
    IN  IF tests # {}
        THEN UNION {{t.variant_a_reward_type, t.variant_b_reward_type} : t \in tests}
        ELSE IF form.chosenReward \in {"free_beer", "free_soft_drink", "pro_shop_5",
                                       "food_bev_5"}
        THEN {form.chosenReward}
        ELSE IF form.locationId \in DOMAIN locations
        THEN {locations[form.locationId]}
        ELSE {"free_beer"}

\* The step that inserts the capture row gives it a reward of that precedence.
C17_RewardStep ==
    \A p \in Workers :
        pc[p] = "c_capture" /\ pc'[p] \in {"c_pipeline", "c_commit"} =>
            /\ Len(tx'[p].caps) = Len(tx[p].caps) + 1
            /\ tx'[p].caps[Len(tx'[p].caps)].reward_type \in ExpectedRewards(req[p].form)

\* C17: reward resolution follows the stated precedence on every capture: a variant
\* of the location's active A/B test; otherwise the customer's chosenReward when it
\* is a catalog kind; otherwise the location's configured default reward; otherwise
\* the global default free_beer.
C17_RewardPrecedence == [][C17_RewardStep]_vars

\* The customers with a membership_score of at least 50.
Scored50 == {id \in 1..Len(customers) : customers[id].membership_score >= 50}

\* The response of a prospects request is a top-ranked selection of `ids`, as many
\* as the limit allows.
ListsTopOf(p, ids) ==
    /\ resp'[p].status = 200
    /\ resp'[p].prospects \subseteq ids
    /\ Cardinality(resp'[p].prospects) = Min(req'[p].limit, Cardinality(ids))
    /\ \A i \in resp'[p].prospects, j \in ids \ resp'[p].prospects :
          \/ customers[i].membership_score > customers[j].membership_score
          \/ /\ customers[i].membership_score = customers[j].membership_score
             /\ customers[i].visit_count >= customers[j].visit_count

\* Worker p answers a prospects request in this step.
AnswersProspects(p) == pc[p] = "idle" /\ pc'[p] = "done" /\ req'[p].kind = "prospects"

\* C18: GET /api/prospects returns the course's customers whose membership_score >=
\* 50 whether or not is_local is true, independently of the stored
\* is_membership_prospect flag, up to the requested limit.
C18_ProspectsScoreOnly ==
    [][\A p \in Workers : AnswersProspects(p) => ListsTopOf(p, Scored50)]_vars

\* The customer has an entry in the prospect_pipeline table.
HasEntry(table, id) == \E k \in 1..Len(table) : table[k].customer_id = id

\* No two prospect_pipeline entries are of the same customer.
OneEntryPerCustomer ==
    \A i, j \in 1..Len(pipeline) :
        pipeline[i].customer_id = pipeline[j].customer_id => i = j

\* In this step worker p commits a capture that yielded a qualifying score for
\* customer id, or answers the staff's request to add customer id.
Enrols(p, id) ==
    \/ /\ pc[p] = "c_commit" /\ IsCommitStep(p)
       /\ tx[p].isProspect
       /\ id = Resolve(Len(customers), tx[p].customerId)
    \/ /\ pc[p] = "idle" /\ pc'[p] = "done" /\ req'[p].kind = "pipeline_add"
       /\ id = req'[p].customerId
       /\ id \in 1..Len(customers)

\* Enrolment inserts or skips.
InsertOrSkip(id) ==
    IF HasEntry(pipeline, id)
    THEN pipeline' = pipeline
    ELSE pipeline' = Append(pipeline, [customer_id |-> id, status |-> "new",
                                       assigned_to |-> "null", notes |-> "null"])

\* C19: there is at most one prospect_pipeline entry per customer in every reachable
\* state, and enrolment by a qualifying capture or by staff is insert-or-skip: when
\* the customer has an entry, the table is left as it is (status, notes and assignee
\* unchanged, no second entry); when the customer has none, an entry with status
\* 'new' exists after the commit.
C19_PipelineInsertOrSkip ==
    /\ []OneEntryPerCustomer
    /\ [][\A p \in Workers : \A id \in 1..(Len(customers) + 1) :
             Enrols(p, id) => InsertOrSkip(id)]_vars

\* C19 witness: a capture with a qualifying score has run its pipeline insert and is
\* about to commit, for a customer whose entry staff have already moved to
\* 'contacted'.
C19_Witness ==
    \E p \in Workers :
        /\ pc[p] = "c_commit" /\ tx[p].isProspect /\ tx[p].pipe = <<>>
        /\ \E k \in 1..Len(pipeline) :
              /\ pipeline[k].customer_id = tx[p].customerId
              /\ pipeline[k].status = "contacted"

EmailFinal == {"sent", "failed", "cancelled"}

\* The status of an entry changes from pending to sent, failed or cancelled only.
EmailStatusStep ==
    \A k \in 1..Len(email_queue) :
        email_queue'[k].status # email_queue[k].status
            => email_queue[k].status = "pending" /\ email_queue'[k].status \in EmailFinal

\* A call of processEmailQueue picks up pending entries only.
EmailPickStep ==
    \A p \in EmailProcs :
        pc[p] = "idle" /\ req'[p].kind = "process_emails"
            => \A n \in 1..Len(run'[p].pending) :
                  email_queue[run'[p].pending[n]].status = "pending"

\* C20: the status of an email_queue entry only ever moves from pending to sent,
\* failed or cancelled, and these three are terminal under any interleaving of
\* processEmailQueue with unsubscribe: a cancelled entry is never later marked sent,
\* and a failed entry is never picked up or retried.
C20_EmailStatusTerminal == [][EmailStatusStep /\ EmailPickStep]_vars

\* Worker p is about to insert a new customer whose phone is the phone of a customer
\* already stored at the course.
InsertsSharedPhone(p) ==
    /\ pc[p] = "c_upsert"
    /\ tx[p].isNewCustomer
    /\ tx[p].phone # Null
    /\ \E id \in 1..Len(customers) : customers[id].phone = tx[p].phone

\* C21: in part_000 phone is never a matching key and may be shared: a submission
\* whose normalized email matches no customer creates a new customer even when its
\* normalized phone equals the phone of another customer of the course.
C21_PhoneMayBeShared ==
    [][\A p \in Workers :
          /\ service = "part000"
          /\ InsertsSharedPhone(p)
          /\ pc'[p] # pc[p]
          /\ resp'[p].error # "database error"
          => /\ pc'[p] = "c_score"
             /\ Len(tx'[p].ins) = Len(tx[p].ins) + 1]_vars

\* The digits of a string, in their order.
RECURSIVE DigitsOf(_)
DigitsOf(str) ==
    IF str = <<>> THEN <<>>
    ELSE (IF Head(str) \in Digits THEN <<Head(str)>> ELSE <<>>) \o DigitsOf(Tail(str))

\* What the claim says normalizePhone returns.
ExpectedPhone(phone) ==
    IF phone = Null THEN Null
    ELSE LET d == DigitsOf(phone)
         IN  IF Len(d) = 10 THEN d
             ELSE IF Len(d) = 11 /\ d[1] = "1" THEN SubSeq(d, 2, 11)
             ELSE Null

\* C22: normalizePhone strips every non-digit and returns exactly 10 digits or null:
\* 10 remaining digits as they are, 11 digits starting with 1 without the leading 1,
\* null for any other digit count or an absent input; and it is idempotent.
C22_NormalizePhone ==
    /\ fnResult.calls >= 1 =>
          /\ fnResult.value = ExpectedPhone(fnArg)
          /\ \/ fnResult.value = Null
             \/ /\ Len(fnResult.value) = 10
                /\ \A i \in 1..10 : fnResult.value[i] \in Digits
    /\ fnResult.calls = 2 => fnResult.again = fnResult.value

\* C22 witness: an 11-digit number with the leading 1 has been normalized, and the
\* result normalized again.
C22_Witness ==
    /\ fnResult.calls = 2
    /\ fnArg # Null /\ Len(fnArg) = 11 /\ fnArg[1] = "1"
    /\ fnResult.value # Null

\* The identity keys of the customers that have one.
CustomerKeys(table) ==
    {<<table[id].email, table[id].phone>> : id \in {k \in 1..Len(table) :
        table[k].email # Null \/ table[k].phone # Null}}

\* The identity key that the import with the generic mapping derives from a record.
RecordKey(rec) ==
    LET mapped == mapFields("generic", rec)
        e == normalizeEmail(mapped.email)
        ph == normalizePhone(mapped.phone)
    IN  <<IF Truthy(e) THEN e ELSE Null, ph>>

\* The file served by p in this step parses into records whose keys are the keys of
\* the exported customers, each once.
ExportRoundTrip(p) ==
    LET parsed == csvParse(resp'[p].body)
        keyed == {n \in 1..Len(parsed.records) :
                     RecordKey(parsed.records[n]) # <<Null, Null>>}
    IN  /\ parsed.ok
        /\ \A m, n \in keyed :
              RecordKey(parsed.records[m]) = RecordKey(parsed.records[n]) => m = n
        /\ {RecordKey(parsed.records[n]) : n \in keyed}
              = CustomerKeys(exportRows(customers, req'[p].filter))

\* Worker p is importing an exported file.
ImportsExport(p) == req[p].kind = "import" /\ "exported" \in DOMAIN req[p]

\* C23: CSV export round-trip: the file of GET /api/export/customers, imported with
\* the generic mapping, reproduces the same set of (email, phone) identity keys with
\* no duplicates; re-imported into the same course, every row that has an email or
\* a phone is matched and no customer is created.
C23_ExportRoundTrip ==
    [][\A p \in Workers :
          /\ pc[p] = "idle" /\ req'[p].kind = "export" /\ resp'[p].status = 200
                => ExportRoundTrip(p)
          /\ pc[p] = "idle" /\ req'[p].kind = "import" /\ "exported" \in DOMAIN req'[p]
                => pc'[p] # "done"
          /\ ImportsExport(p) /\ pc[p] = "i_write"
                => tx[p].customerId # 0 /\ Len(tx'[p].ins) = Len(tx[p].ins)]_vars

\* C24: the last-admin guard: over any sequence and interleaving of PUT and DELETE
\* /api/admin/users/:id issued by authenticated admins, starting with at least one
\* active admin, every reachable state has an admin_users row with role 'admin' and
\* is_active = true.
C24_LastAdminGuard ==
    \E u \in DOMAIN admin_users :
        admin_users[u].role = "admin" /\ admin_users[u].is_active

\* The step in which worker p commits a capture for the existing customer id.
CommitsVisitOf(p, id) ==
    /\ IsCommitStep(p)
    /\ req[p].kind = "capture"
    /\ ~tx[p].isNewCustomer
    /\ tx[p].customerId = id

\* Each commit of a capture for an existing customer adds exactly 1 to the committed
\* visit_count and stores the score of the committed row; no other step changes it.
VisitCountStep ==
    \A id \in 1..Len(customers) :
        /\ id \in 1..Len(customers')
        /\ IF \E p \in Workers : CommitsVisitOf(p, id)
           THEN /\ customers'[id].visit_count = customers[id].visit_count + 1
                /\ customers'[id].membership_score =
                      calculateMembershipScore(customers'[id])
           ELSE customers'[id].visit_count = customers[id].visit_count

\* C25: in the repeat-visitor service the visit_count updates of one customer are
\* linearizable: every capture for an existing customer that commits, concurrent with
\* others or not, raises the committed visit_count by exactly 1 (so N commits raise it
\* by N), and the membership_score stored by each commit, the last one included, is
\* the score of the visit_count it leaves.
C25_VisitCountLinearizable == [][VisitCountStep]_vars

\* C25 witness: a second capture has committed for a customer and stands answered
\* while a concurrent capture for the same customer, which had waited for the row
\* lock, holds its own increment on top of the committed count.
C25_Witness ==
    /\ service = "backend"
    /\ \E p, q \in Workers, id \in 1..Len(customers) :
          /\ p # q
          /\ pc[p] = "done" /\ req[p].kind = "capture" /\ resp[p].status = 200
          /\ resp[p].customerId = id /\ ~resp[p].isNewCustomer
          /\ req[q].kind = "capture" /\ pc[q] = "c_commit"
          /\ tx[q].customerId = id /\ ~tx[q].isNewCustomer
          /\ customers[id].visit_count >= 2
          /\ tx[q].upd[id].visit_count = customers[id].visit_count + 1

\* The write of the import row at hand violates a unique constraint.
ImportWriteFails(p) ==
    /\ req[p].kind = "import"
    /\ pc[p] = "i_write"
    /\ LET id == tx[p].customerId
           row == IF id # 0
                  THEN importMergeRow(ViewRow(p, id), tx[p].mapped, tx[p].email,
                                      tx[p].phone, tx[p].now)
                  ELSE importCustomerRow(ImportSource[req[p].source], tx[p].mapped,
                                         tx[p].email, tx[p].phone,
                                         sourceId(req[p].records[tx[p].i]), tx[p].now)
       IN  UniqueViolation(p, id, row)

\* The step that ends a batch whose processing failed leaves the batch persisted as
\* 'failed', with the audit rows written so far.
ImportFailureStep ==
    \A p \in Workers :
        ImportWriteFails(p) /\ pc'[p] = "done" /\ resp'[p].status = 500 =>
            /\ Len(imports') = Len(imports) + 1
            /\ imports'[Len(imports')].status = "failed"
            /\ Len(import_rows') = Len(import_rows) + Len(tx[p].irows)

\* No persisted batch is left in 'processing' by a handler that has ended.
NoBatchStuck ==
    \A k \in 1..Len(imports) : imports[k].status \in {"completed", "failed"}

\* C26: an import batch follows pending -> processing -> completed | failed: a batch
\* whose processing fails ends as a persisted imports row with status 'failed' and
\* its audit rows kept, and no persisted batch stays in 'processing'.
C26_ImportLifecycle == []NoBatchStuck /\ [][ImportFailureStep]_vars

\* The capture rows linked to customer id.
capturesOf(id) == {k \in 1..Len(captures) : captures[k].customer_id = id}

\* C27: in every reachable state of either service, whatever captures, imports and
\* redemptions have run and however they interleaved, each customer's visit_count
\* equals the number of capture rows linked to that customer.
C27_VisitCountIsCaptureCount ==
    \A id \in 1..Len(customers) :
        customers[id].visit_count = Cardinality(capturesOf(id))

\* C27 witness: a customer has come twice and holds two capture rows, one of them
\* redeemed.
C27_Witness ==
    \E id \in 1..Len(customers) :
        /\ customers[id].visit_count = 2
        /\ Cardinality(capturesOf(id)) = 2
        /\ \E k \in capturesOf(id) : captures[k].reward_redeemed

\* No element occurs twice in the sequence.
NoRepeats(seq) == \A i, j \in 1..Len(seq) : i # j => seq[i] # seq[j]

\* C28: each email_queue entry is delivered at most once, also when the timer's run
\* overlaps with GET /api/admin/process-emails: no entry is handed to the mail sender
\* twice, no entry has two email_logs rows, and only entries whose scheduled_for has
\* been reached are delivered.
C28_DeliveredAtMostOnce ==
    /\ NoRepeats(outbox)
    /\ NoRepeats(email_logs)
    /\ \A i \in 1..Len(outbox) : email_queue[outbox[i]].due
    /\ \A i \in 1..Len(email_logs) : email_queue[email_logs[i]].due

\* PUT /api/customers/:id/unsubscribe has completed for customer id: a request has
\* run both of its statements and is answered with success.
Unsubscribed(id) ==
    \E p \in EmailProcs :
        pc[p] = "u_done" /\ req[p].id = id /\ resp[p].status = 200

\* No entry of an unsubscribed customer is pending.
NothingPendingAfterOptOut ==
    \A k \in 1..Len(email_queue) :
        Unsubscribed(email_queue[k].customer_id) => email_queue[k].status # "pending"

\* No entry of a customer who was unsubscribed before the step is handed to the
\* mail sender or marked sent in it.
NothingSentAfterOptOut ==
    \A k \in 1..Len(email_queue) :
        Unsubscribed(email_queue[k].customer_id) =>
            /\ Len(outbox') > Len(outbox) => outbox'[Len(outbox')] # k
            /\ email_queue[k].status # "sent" => email_queue'[k].status # "sent"

\* C29: once PUT /api/customers/:id/unsubscribe has completed, no email_queue entry of
\* that customer is pending and none is sent afterwards, however the request
\* interleaved with queueEmail, a segment email send and processEmailQueue.
C29_OptOutStopsEmail == []NothingPendingAfterOptOut /\ [][NothingSentAfterOptOut]_vars

\* The step in which a capture of worker p is answered with an error status.
AnswersError(p) ==
    /\ req[p].kind = "capture"
    /\ pc[p] # "done" /\ pc'[p] = "done"
    /\ resp'[p].status \in {400, 500}

\* Worker p's request has committed its transaction: the customer and the capture
\* row it wrote are in the tables.
HasCommitted(p) ==
    /\ ~tx[p].open
    /\ resp[p].customerId \in 1..Len(customers)
    /\ \E k \in 1..Len(captures) : captures[k].customer_id = resp[p].customerId

\* An error answer is given by a request that has committed nothing and persists
\* nothing.
ErrorAnswerStep ==
    \A p \in Workers :
        AnswersError(p) => ~HasCommitted(p) /\ dbVars' = dbVars

\* C30: in part_000, POST /api/capture answers with an error status (400 or 500) only
\* if nothing from that request was committed: no customer row, capture row,
\* visit_count increment or pipeline entry written by the request is persisted.
C30_ErrorMeansNothingCommitted == [][ErrorAnswerStep]_vars

====
